---- MODULE Spec2Model ----
(***************************************************************************)
(* A model of the grammY example bots of this repository: the retry loop   *)
(* sendWithRetry, the middleware chain of createBotWithMiddleware, the     *)
(* feature composition of createComposedBot and the errorBoundary of       *)
(* createErrorHandlingBot.  Every await of the source is a step of the     *)
(* model; every ctx.reply is a network call that may resolve or reject.    *)
(***************************************************************************)
EXTENDS Integers, Sequences, FiniteSets, TLC

\* ------------------------------------------------------------------------
\* Bounds of the model
\* ------------------------------------------------------------------------
\* sendWithRetry is explored for maxRetries in 0..MaxRetriesBound
MaxRetriesBound == 4

\* Sessions are explored up to MaxVisits visits and MaxNotes notes per chat
MaxVisits == 2

MaxNotes == 2

\* createStatefulFeature is explored with MaxUpdates updates, of which
\* MaxInFlight can be in flight at once
MaxUpdates == 3

MaxInFlight == 2

\* handleCalcCommand is explored with up to MaxWords words in ctx.match
MaxWords == 4

\* ------------------------------------------------------------------------
\* Errors
\* ------------------------------------------------------------------------
\* The classes of error a network call can raise (error_handling.ts:14):
\* HttpError (transport), GrammyError (API) and any other Error.
ErrorKinds == {"HttpError", "GrammyError", "Error"}

\* An error object: its class and the identity of the call that raised it.
MkError(kind, id) == [kind |-> kind, id |-> id]

\* No error.
NoError == [kind |-> "none", id |-> 0]

\* The value of `let lastError: unknown` before any assignment.
Undefined == [kind |-> "undefined", id |-> 0]

\* The delays sendWithRetry is explored with (delayMs, default 1000).
DelayChoices == {0, 1000}

VARIABLES
    \* ---- sendWithRetry (error_handling.ts:155-181)
    retryPc,        \* "idle", "try", "awaitFn", "delay", "resolved", "rejected"
    maxRetries,     \* parameter
    delayMs,        \* parameter
    attempt,        \* loop variable
    lastError,      \* local
    fnCalls,        \* number of invocations of fn so far
    fnHistory,      \* outcome of every settled invocation of fn, in order
    delaysWaited,   \* number of setTimeout waits started
    msWaited,       \* sum of the delays waited
    retryThrown     \* the error sendWithRetry rejected with

retryVars == <<retryPc, maxRetries, delayMs, attempt, lastError, fnCalls,
               fnHistory, delaysWaited, msWaited, retryThrown>>

VARIABLES
    \* ---- createBotWithMiddleware (middleware example)
    allowedUserIds, \* the Set<number> given to authenticationMiddleware
    mwPc,           \* the middleware or await the update is at
    mwUpdate,       \* the update being processed
    mwTrace,        \* what happened for this update, in order
    mwError,        \* the error in flight, or the one that escaped
    mwOutcome       \* how errorHandlingMiddleware's promise settled

mwVars == <<allowedUserIds, mwPc, mwUpdate, mwTrace, mwError, mwOutcome>>

VARIABLES
    \* ---- createComposedBot (bot composition example)
    adminIds,       \* options.adminIds
    cbPc,           \* the middleware or await the update is at
    cbUpdate,       \* the update being processed
    cbTrace,        \* what happened for this update, in order
    cbError,        \* the error in flight, or the one that escaped
    cbOutcome       \* how the bot's middleware settled

cbVars == <<adminIds, cbPc, cbUpdate, cbTrace, cbError, cbOutcome>>

VARIABLES
    \* ---- createErrorHandlingBot (error handling example)
    ebPc,           \* the middleware or await the update is at
    ebUpdate,       \* the update being processed
    ebTrace,        \* what happened for this update, in order
    ebError,        \* the error in flight
    ebOutcome       \* how errorBoundary's promise settled

ebVars == <<ebPc, ebUpdate, ebTrace, ebError, ebOutcome>>

VARIABLES
    \* ---- errorBoundary examples (boundary demo, nested boundary example)
    bdProgram,      \* which script registered the middleware
    bdPc,           \* the middleware or await the update is at
    bdUpdate,       \* the update being processed
    bdStack,        \* the composers being run, outermost first
    bdTrace,        \* what happened for this update, in order
    bdError,        \* the error in flight, or the one that escaped
    bdOutcome       \* how the bot's middleware settled

bdVars == <<bdProgram, bdPc, bdUpdate, bdStack, bdTrace, bdError, bdOutcome>>

VARIABLES
    \* ---- sessions bot (sessions/mod.ts)
    ssPc,           \* the middleware or await the update is at
    ssUpdate,       \* the update being processed
    ssStorage,      \* the session storage: chat key -> session object
    ssObjs,         \* the session objects
    ssArrs,         \* the notes arrays
    ssSession,      \* ctx.session
    ssReply,        \* the text ctx.reply was called with for this update
    ssStarted,      \* per chat: whether a /start update has been handled
    ssNoted,        \* per chat: whether a /note update has been handled
    ssStarts,       \* per chat: the /start handler runs since the last /reset
    ssLog,          \* per chat: the texts /note stored since the last /reset
    ssCleared       \* per chat: whether the last update handled was a /reset

ssVars == <<ssPc, ssUpdate, ssStorage, ssObjs, ssArrs, ssSession, ssReply,
            ssStarted, ssNoted, ssStarts, ssLog, ssCleared>>

VARIABLES
    \* ---- createStatefulFeature (bot_composition.ts)
    messageCount,   \* the Map<number, number> of the feature
    scSlots,        \* the updates in flight and the await each is at
    scPassed,       \* per sender id: updates that passed the counting middleware
    scReceived,     \* number of updates received so far
    scEscaped       \* whether a failed reply has left the composer

scVars == <<messageCount, scSlots, scPassed, scReceived, scEscaped>>

VARIABLES
    \* ---- handleCalcCommand (function/calc_command.ts)
    calcPc,         \* the await the /calc update is at
    calcMatch,      \* ctx.match, as its whitespace-separated words
    calcReply,      \* the text ctx.reply was called with
    calcOutcome     \* how handleCalcCommand settled for the last update

calcVars == <<calcPc, calcMatch, calcReply, calcOutcome>>

\* The state of the examples other than the four above.
otherVars == <<bdVars, ssVars, scVars, calcVars>>

vars == <<retryVars, mwVars, cbVars, ebVars, otherVars>>

\* ------------------------------------------------------------------------
\* sendWithRetry
\* ------------------------------------------------------------------------
\* Variant of LoopCond: an off-by-one bound.
LoopCondOffByOne(a, m) == a <= m + 1

\* for (...; attempt <= maxRetries; ...)
LoopCond(a, m) == a <= m

\* Variant of Retryable: the class of the error is not tested.
RetryableAnyError(error, a, m) == a < m

\* Variant of Retryable: the last attempt waits too.
RetryableLastAttempt(error, a, m) == error.kind = "HttpError" /\ a <= m

\* if (error instanceof HttpError && attempt < maxRetries)
Retryable(error, a, m) == error.kind = "HttpError" /\ a < m

\* Variant of NextAttempt: the loop does not advance attempt.
NextAttemptSame(a) == a

\* for (...; attempt++)
NextAttempt(a) == a + 1

RetryInit ==
    /\ retryPc = "idle"
    /\ maxRetries = 3
    /\ delayMs = 1000
    /\ attempt = 0
    /\ lastError = Undefined
    /\ fnCalls = 0
    /\ fnHistory = <<>>
    /\ delaysWaited = 0
    /\ msWaited = 0
    /\ retryThrown = NoError

\* Entry of sendWithRetry(fn, m, d): the locals are initialised and the loop
\* condition is tested for attempt = 1; when it fails at once the function
\* falls through to `throw lastError`.
SendWithRetryEnter(m, d) ==
    /\ maxRetries' = m
    /\ delayMs' = d
    /\ attempt' = 1
    /\ lastError' = Undefined
    /\ fnCalls' = 0
    /\ fnHistory' = <<>>
    /\ delaysWaited' = 0
    /\ msWaited' = 0
    /\ IF LoopCond(1, m)
         THEN retryPc' = "try" /\ retryThrown' = NoError
         ELSE retryPc' = "rejected" /\ retryThrown' = Undefined

\* A caller invokes sendWithRetry with some bound and some delay.
SendWithRetryCall ==
    /\ UNCHANGED <<mwVars, cbVars, ebVars, otherVars>>
    /\ retryPc = "idle"
    /\ \E m \in 0..MaxRetriesBound, d \in DelayChoices : SendWithRetryEnter(m, d)

\* try { await fn(); : fn is invoked.  The model follows a call of
\* sendWithRetry for up to MaxRetriesBound + 1 invocations of fn.
SendWithRetryInvokeFn ==
    /\ UNCHANGED <<mwVars, cbVars, ebVars, otherVars>>
    /\ retryPc = "try"
    /\ fnCalls <= MaxRetriesBound
    /\ retryPc' = "awaitFn"
    /\ fnCalls' = fnCalls + 1
    /\ UNCHANGED <<maxRetries, delayMs, attempt, lastError, fnHistory,
                   delaysWaited, msWaited, retryThrown>>

\* fn() resolved: return.
SendWithRetryFnResolves ==
    /\ UNCHANGED <<mwVars, cbVars, ebVars, otherVars>>
    /\ retryPc = "awaitFn"
    /\ retryPc' = "resolved"
    /\ fnHistory' = Append(fnHistory, NoError)
    /\ UNCHANGED <<maxRetries, delayMs, attempt, lastError, fnCalls,
                   delaysWaited, msWaited, retryThrown>>

\* fn() rejected with an error of class kind: the catch block.
SendWithRetryFnRejects(kind) ==
    /\ UNCHANGED <<mwVars, cbVars, ebVars, otherVars>>
    /\ retryPc = "awaitFn"
    /\ LET error == MkError(kind, fnCalls) IN
         /\ lastError' = error
         /\ fnHistory' = Append(fnHistory, error)
         /\ IF Retryable(error, attempt, maxRetries)
              THEN /\ retryPc' = "delay"
                   /\ delaysWaited' = delaysWaited + 1
                   /\ msWaited' = msWaited + delayMs
                   /\ UNCHANGED retryThrown
              ELSE /\ retryPc' = "rejected"
                   /\ retryThrown' = error
                   /\ UNCHANGED <<delaysWaited, msWaited>>
    /\ UNCHANGED <<maxRetries, delayMs, attempt, fnCalls>>

\* The setTimeout promise resolved: continue; attempt++ and the loop test.
SendWithRetryDelayElapses ==
    /\ UNCHANGED <<mwVars, cbVars, ebVars, otherVars>>
    /\ retryPc = "delay"
    /\ attempt' = NextAttempt(attempt)
    /\ IF LoopCond(NextAttempt(attempt), maxRetries)
         THEN retryPc' = "try" /\ UNCHANGED retryThrown
         ELSE retryPc' = "rejected" /\ retryThrown' = lastError
    /\ UNCHANGED <<maxRetries, delayMs, lastError, fnCalls, fnHistory,
                   delaysWaited, msWaited>>

\* The caller has seen the result; the next call may start.
SendWithRetryReturn ==
    /\ UNCHANGED <<mwVars, cbVars, ebVars, otherVars>>
    /\ retryPc \in {"resolved", "rejected"}
    /\ retryPc' = "idle"
    /\ UNCHANGED <<maxRetries, delayMs, attempt, lastError, fnCalls,
                   fnHistory, delaysWaited, msWaited, retryThrown>>

\* ------------------------------------------------------------------------
\* Updates
\* ------------------------------------------------------------------------
\* Sender ids the bots are explored with: the ids the examples allow, an id
\* no example allows, and 0.
UserIds == {0, 42, 123456789, 987654321}

\* ctx.from of an update: absent, or a user with an id.
Senders ==
    {[hasFrom |-> FALSE, fromId |-> 0]} \cup
    {[hasFrom |-> TRUE, fromId |-> id] : id \in UserIds}

\* JavaScript's !n for a number n.
Falsy(n) == n = 0

\* ------------------------------------------------------------------------
\* createBotWithMiddleware
\* ------------------------------------------------------------------------
\* What an update of the middleware bot carries: a /start, /status or other
\* command, a plain text message, a message without text, or no message.
MwWhats == {"/start", "/status", "/other", "text", "photo", "none"}

MwUpdates ==
    {[hasFrom |-> s.hasFrom, fromId |-> s.fromId, what |-> w] :
        s \in Senders, w \in MwWhats}

\* The allow-lists authenticationMiddleware is explored with: the one of
\* createBotWithMiddleware and one that holds 0.
AllowedSets == {{123456789, 987654321}, {0, 42}}

\* Variant of MwChain: authentication registered before the logging.
MwChainAuthFirst ==
    <<"errorHandling", "auth", "logging", "responseTime",
      "cmd_start", "cmd_status", "on_text">>

\* The middleware of createBotWithMiddleware in registration order.
MwChain ==
    <<"errorHandling", "logging", "responseTime", "auth",
      "cmd_start", "cmd_status", "on_text">>

\* next(): the middleware registered after stage, "end" after the last one.
MwNext(stage) ==
    LET i == CHOOSE k \in 1..Len(MwChain) : MwChain[k] = stage
    IN IF i < Len(MwChain) THEN MwChain[i + 1] ELSE "end"

\* Variant of AuthRejects: the allow-list is not consulted.
AuthRejectsOnlyAbsent(update, allowed) ==
    ~update.hasFrom \/ Falsy(update.fromId)

\* if (!userId || !allowedUserIds.has(userId)) with userId = ctx.from?.id
AuthRejects(update, allowed) ==
    \/ ~update.hasFrom
    \/ Falsy(update.fromId)
    \/ update.fromId \notin allowed

\* The filter of bot.command(name): a message whose text starts with /name.
MwCommandMatches(update, name) == update.what = name

\* The filter of bot.on("message:text"): any message with a text, commands
\* included.
MwTextMatches(update) == update.what \in {"/start", "/status", "/other", "text"}

\* The replies of the middleware bot.
NotAuthorizedText == "You are not authorized to use this bot."
MwApologyText ==
    "An error occurred while processing your request. Please try again later."

MwInit ==
    /\ allowedUserIds = {}
    /\ mwPc = "new"
    /\ mwUpdate = [hasFrom |-> FALSE, fromId |-> 0, what |-> "none"]
    /\ mwTrace = <<>>
    /\ mwError = NoError
    /\ mwOutcome = "none"

\* Control passes to the middleware `stage` (or past the end of the chain,
\* where the downstream promise resolves and control returns upstream).
MwEnter(stage, trace) ==
    IF stage = "end"
      THEN /\ mwPc' = "returning"
           /\ mwTrace' = trace
      ELSE /\ mwPc' = stage
           /\ mwTrace' = Append(trace, stage)

\* ctx.reply(text) is called and awaited.
MwReply(text, awaiting) ==
    /\ mwPc' = awaiting
    /\ mwTrace' = Append(mwTrace, "reply:" \o text)

\* createBotWithMiddleware: authenticationMiddleware(allowedUserIds) is
\* built with an allow-list and the middleware is registered.
CreateBotWithMiddleware ==
    /\ mwPc = "new"
    /\ allowedUserIds' \in AllowedSets
    /\ mwPc' = "idle"
    /\ UNCHANGED <<mwUpdate, mwTrace, mwError, mwOutcome, retryVars, cbVars, ebVars, otherVars>>

\* The framework hands an update to the first middleware.
MwReceive ==
    /\ mwPc \in {"idle", "done"}
    /\ \E u \in MwUpdates : mwUpdate' = u
    /\ MwEnter(MwChain[1], <<>>)
    /\ mwError' = NoError
    /\ mwOutcome' = "none"
    /\ UNCHANGED <<allowedUserIds, retryVars, cbVars, ebVars, otherVars>>

\* errorHandlingMiddleware: try { await next();
ErrorHandlingMiddleware ==
    /\ mwPc = "errorHandling"
    /\ MwEnter(MwNext("errorHandling"), mwTrace)
    /\ UNCHANGED <<allowedUserIds, mwUpdate, mwError, mwOutcome, retryVars, cbVars, ebVars, otherVars>>

\* loggingMiddleware: console.log(...); await next();
LoggingMiddleware ==
    /\ mwPc = "logging"
    /\ MwEnter(MwNext("logging"), Append(mwTrace, "log"))
    /\ UNCHANGED <<allowedUserIds, mwUpdate, mwError, mwOutcome, retryVars, cbVars, ebVars, otherVars>>

\* responseTimeMiddleware: const start = Date.now(); await next();
ResponseTimeMiddleware ==
    /\ mwPc = "responseTime"
    /\ MwEnter(MwNext("responseTime"), mwTrace)
    /\ UNCHANGED <<allowedUserIds, mwUpdate, mwError, mwOutcome, retryVars, cbVars, ebVars, otherVars>>

\* authenticationMiddleware(allowedUserIds): reject and return, or next().
AuthenticationMiddleware ==
    /\ mwPc = "auth"
    /\ IF AuthRejects(mwUpdate, allowedUserIds)
         THEN MwReply(NotAuthorizedText, "awaitReply")
         ELSE MwEnter(MwNext("auth"), Append(mwTrace, "auth_next"))
    /\ UNCHANGED <<allowedUserIds, mwUpdate, mwError, mwOutcome, retryVars, cbVars, ebVars, otherVars>>

\* bot.command("start", ...)
MwCommandStart ==
    /\ mwPc = "cmd_start"
    /\ IF MwCommandMatches(mwUpdate, "/start")
         THEN MwReply("Welcome, authorized user!", "awaitReply")
         ELSE MwEnter(MwNext("cmd_start"), mwTrace)
    /\ UNCHANGED <<allowedUserIds, mwUpdate, mwError, mwOutcome, retryVars, cbVars, ebVars, otherVars>>

\* bot.command("status", ...)
MwCommandStatus ==
    /\ mwPc = "cmd_status"
    /\ IF MwCommandMatches(mwUpdate, "/status")
         THEN MwReply("Bot is running and you are authenticated.", "awaitReply")
         ELSE MwEnter(MwNext("cmd_status"), mwTrace)
    /\ UNCHANGED <<allowedUserIds, mwUpdate, mwError, mwOutcome, retryVars, cbVars, ebVars, otherVars>>

\* bot.on("message:text", ...)
MwOnMessageText ==
    /\ mwPc = "on_text"
    /\ IF MwTextMatches(mwUpdate)
         THEN MwReply("Echo: " \o mwUpdate.what, "awaitReply")
         ELSE MwEnter(MwNext("on_text"), mwTrace)
    /\ UNCHANGED <<allowedUserIds, mwUpdate, mwError, mwOutcome, retryVars, cbVars, ebVars, otherVars>>

\* Returning upstream without an error: responseTimeMiddleware, when it was
\* entered, prints its line after its await next(); then the try block of
\* errorHandlingMiddleware completes.
MwUnwind(trace) ==
    /\ mwTrace' = IF \E i \in 1..Len(trace) : trace[i] = "responseTime"
                    THEN Append(trace, "rt_line")
                    ELSE trace
    /\ mwPc' = "done"
    /\ mwOutcome' = "resolved"
    /\ UNCHANGED mwError

\* An error travels upstream: no middleware but errorHandlingMiddleware has
\* a catch block, so the code after every other await next() is skipped.
MwThrow(error, trace) ==
    /\ mwError' = error
    /\ IF \E i \in 1..Len(trace) : trace[i] = "errorHandling"
         THEN /\ mwPc' = "catch"
              /\ mwTrace' = trace
              /\ UNCHANGED mwOutcome
         ELSE /\ mwPc' = "done"
              /\ mwTrace' = trace
              /\ mwOutcome' = "rejected"

\* The reply of a handler or of authenticationMiddleware was sent.
MwReplyResolves ==
    /\ mwPc = "awaitReply"
    /\ MwUnwind(Append(mwTrace, "reply_ok"))
    /\ UNCHANGED <<allowedUserIds, mwUpdate, retryVars, cbVars, ebVars, otherVars>>

\* The reply of a handler or of authenticationMiddleware failed.
MwReplyRejects(kind) ==
    /\ mwPc = "awaitReply"
    /\ MwThrow(MkError(kind, Len(mwTrace)), Append(mwTrace, "reply_failed"))
    /\ UNCHANGED <<allowedUserIds, mwUpdate, retryVars, cbVars, ebVars, otherVars>>

\* No handler took the update: the chain ends and control returns.
MwChainEnds ==
    /\ mwPc = "returning"
    /\ MwUnwind(mwTrace)
    /\ UNCHANGED <<allowedUserIds, mwUpdate, retryVars, cbVars, ebVars, otherVars>>

\* errorHandlingMiddleware: catch (error) { console.error; await ctx.reply
ErrorHandlingCatch ==
    /\ mwPc = "catch"
    /\ MwReply(MwApologyText, "awaitApology")
    /\ UNCHANGED <<allowedUserIds, mwUpdate, mwError, mwOutcome, retryVars, cbVars, ebVars, otherVars>>

\* The apology was sent: errorHandlingMiddleware resolves.
MwApologyResolves ==
    /\ mwPc = "awaitApology"
    /\ mwPc' = "done"
    /\ mwTrace' = Append(mwTrace, "reply_ok")
    /\ mwOutcome' = "resolved"
    /\ mwError' = NoError
    /\ UNCHANGED <<allowedUserIds, mwUpdate, retryVars, cbVars, ebVars, otherVars>>

\* The apology failed inside the catch block: nothing guards it.
MwApologyRejects(kind) ==
    /\ mwPc = "awaitApology"
    /\ mwPc' = "done"
    /\ mwTrace' = Append(mwTrace, "reply_failed")
    /\ mwOutcome' = "rejected"
    /\ mwError' = MkError(kind, Len(mwTrace))
    /\ UNCHANGED <<allowedUserIds, mwUpdate, retryVars, cbVars, ebVars, otherVars>>

NextMiddleware ==
    \/ CreateBotWithMiddleware
    \/ MwReceive
    \/ ErrorHandlingMiddleware
    \/ LoggingMiddleware
    \/ ResponseTimeMiddleware
    \/ AuthenticationMiddleware
    \/ MwCommandStart
    \/ MwCommandStatus
    \/ MwOnMessageText
    \/ MwReplyResolves
    \/ \E kind \in ErrorKinds : MwReplyRejects(kind)
    \/ MwChainEnds
    \/ ErrorHandlingCatch
    \/ MwApologyResolves
    \/ \E kind \in ErrorKinds : MwApologyRejects(kind)

\* ------------------------------------------------------------------------
\* createComposedBot
\* ------------------------------------------------------------------------
\* The commands the features of the composed bot register.
HelpCommands == {"start", "help", "about"}
UserCommands == {"profile", "settings"}
AdminCommands == {"stats", "broadcast", "maintenance"}
UtilityCommands == {"echo", "time", "ping"}
CbCommands == HelpCommands \cup UserCommands \cup AdminCommands \cup UtilityCommands

\* The keywords createMessageFeature looks for in the lower-cased text.
CbKeywords == {"hello", "hi", "bye", "goodbye", "help"}

\* A message content: kind is "text", "photo", "sticker" or "none" (an
\* update without a message); cmd is the command the text starts with ("" for
\* none), match the text after the command, has the keywords the text
\* contains.
CbContent(kind, cmd, match, has) ==
    [kind |-> kind, cmd |-> cmd, match |-> match, has |-> has]

\* The contents the composed bot is explored with: every registered command
\* and an unregistered one, bare and with the argument "hi"; the plain texts
\* "hello", "hi", "goodbye", "help me" and "abc"; a photo, a sticker and an
\* update without a message.
CbContents ==
    {CbContent("text", c, m,
               (IF m = "hi" THEN {"hi"} ELSE {}) \cup
               (IF c = "help" THEN {"help"} ELSE {})) :
        c \in CbCommands \cup {"other"}, m \in {"", "hi"}}
    \cup {CbContent("text", "", "", {"hello"}),
          CbContent("text", "", "", {"hi"}),
          CbContent("text", "", "", {"bye", "goodbye"}),
          CbContent("text", "", "", {"help"}),
          CbContent("text", "", "", {}),
          CbContent("photo", "", "", {}),
          CbContent("sticker", "", "", {}),
          CbContent("none", "", "", {})}

CbUpdates ==
    {[hasFrom |-> s.hasFrom, fromId |-> s.fromId, msg |-> c] :
        s \in Senders, c \in CbContents}

\* The admin lists the composed bot is explored with: the default one, the
\* empty one of an unset ADMIN_IDS, and another one.
AdminSets == {{123456789}, {}, {0, 42}}

\* The middleware of createComposedBot in registration order, the features'
\* composers flattened in place.
CbChain ==
    <<"logging", "errorHandling",
      "cmd:start", "cmd:help", "cmd:about",
      "cmd:profile", "cmd:settings",
      "adminAuth", "cmd:stats", "cmd:broadcast", "cmd:maintenance",
      "cmd:echo", "cmd:time", "cmd:ping",
      "on:text", "on:photo", "on:sticker">>

\* next(): the middleware registered after stage, "end" after the last one.
CbNext(stage) ==
    LET i == CHOOSE k \in 1..Len(CbChain) : CbChain[k] = stage
    IN IF i < Len(CbChain) THEN CbChain[i + 1] ELSE "end"

\* Variant of AdminAuthRejects: adminIds is not consulted.
AdminAuthRejectsOnlyAbsent(update, admins) == ~update.hasFrom

\* if (!ctx.from || !adminIds.has(ctx.from.id))
AdminAuthRejects(update, admins) ==
    ~update.hasFrom \/ update.fromId \notin admins

AdminOnlyText == "This command is only available to administrators."
CbApologyText == "An error occurred. Please try again later."

\* The filter of composer.command(c).
CbCommandMatches(update, c) == update.msg.kind = "text" /\ update.msg.cmd = c

\* The filter of composer.on("message:<kind>"); a command is a text too.
CbOnMatches(update, kind) == update.msg.kind = kind

\* What the handler of command c replies.
CbCommandReply(update, c) ==
    CASE c = "start" -> "Welcome to the bot! Use /help to see available commands."
      [] c = "help" -> "Available Commands: ..."
      [] c = "about" -> "This bot demonstrates modular composition patterns in grammY."
      [] c = "profile" -> IF ~update.hasFrom
                            THEN "User information not available."
                            ELSE "Your Profile: ..."
      [] c = "settings" -> "Settings: ..."
      [] c = "stats" -> "Bot Statistics: ..."
      [] c = "broadcast" -> IF update.msg.match = ""
                              THEN "Usage: /broadcast <message>"
                              ELSE "Broadcasting message: " \o update.msg.match
      [] c = "maintenance" -> "Maintenance mode toggled."
      [] c = "echo" -> IF update.msg.match = ""
                         THEN "Usage: /echo <text>"
                         ELSE update.msg.match
      [] c = "time" -> "Current time: ..."
      [] c = "ping" -> "Pong! Latency: ..."

\* What the handler of on("message:<kind>") replies.
CbOnReply(update, kind) ==
    CASE kind = "text" ->
           IF update.msg.has \cap {"hello", "hi"} # {}
             THEN "Hello! How can I help you today?"
           ELSE IF update.msg.has \cap {"bye", "goodbye"} # {}
             THEN "Goodbye! Have a great day!"
           ELSE IF "help" \in update.msg.has
             THEN "Use /help to see all available commands."
           ELSE "I received your message. Use /help to see what I can do."
      [] kind = "photo" -> "Nice photo!"
      [] kind = "sticker" -> "Cool sticker!"

CbInit ==
    /\ adminIds = {}
    /\ cbPc = "new"
    /\ cbUpdate = [hasFrom |-> FALSE, fromId |-> 0,
                   msg |-> CbContent("none", "", "", {})]
    /\ cbTrace = <<>>
    /\ cbError = NoError
    /\ cbOutcome = "none"

\* Control passes to the middleware `stage`, or past the end of the chain.
CbEnter(stage, trace) ==
    /\ cbPc' = IF stage = "end" THEN "returning" ELSE stage
    /\ cbTrace' = trace

\* The handler of `stage` runs and awaits ctx.reply(text).
CbRunAndReply(stage, text) ==
    /\ cbPc' = "awaitReply"
    /\ cbTrace' = cbTrace \o <<"run:" \o stage, "reply:" \o text>>

\* createComposedBot(token, options): adminIds is options.adminIds or the
\* default, and the middleware and the features are registered.
CreateComposedBot ==
    /\ cbPc = "new"
    /\ adminIds' \in AdminSets
    /\ cbPc' = "idle"
    /\ UNCHANGED <<cbUpdate, cbTrace, cbError, cbOutcome, retryVars, mwVars, ebVars, otherVars>>

\* The framework hands an update to the first middleware.
CbReceive ==
    /\ cbPc \in {"idle", "done"}
    /\ \E u \in CbUpdates : cbUpdate' = u
    /\ CbEnter(CbChain[1], <<>>)
    /\ cbError' = NoError
    /\ cbOutcome' = "none"
    /\ UNCHANGED <<adminIds, retryVars, mwVars, ebVars, otherVars>>

\* bot.use((ctx, next) => { console.log(...); return next(); })
CbLogging ==
    /\ cbPc = "logging"
    /\ CbEnter(CbNext("logging"), Append(cbTrace, "log"))
    /\ UNCHANGED <<adminIds, cbUpdate, cbError, cbOutcome, retryVars, mwVars, ebVars, otherVars>>

\* bot.use(async (ctx, next) => { try { await next();
CbErrorHandling ==
    /\ cbPc = "errorHandling"
    /\ CbEnter(CbNext("errorHandling"), Append(cbTrace, "try"))
    /\ UNCHANGED <<adminIds, cbUpdate, cbError, cbOutcome, retryVars, mwVars, ebVars, otherVars>>

\* composer.command(c, handler) of a feature: the handler replies when the
\* update is the command, and the update passes on otherwise.
CbCommand(c) ==
    /\ cbPc = "cmd:" \o c
    /\ IF CbCommandMatches(cbUpdate, c)
         THEN CbRunAndReply("cmd:" \o c, CbCommandReply(cbUpdate, c))
         ELSE CbEnter(CbNext("cmd:" \o c), cbTrace)
    /\ UNCHANGED <<adminIds, cbUpdate, cbError, cbOutcome, retryVars, mwVars, ebVars, otherVars>>

\* The authorization middleware of createAdminFeature.
CbAdminAuth ==
    /\ cbPc = "adminAuth"
    /\ IF AdminAuthRejects(cbUpdate, adminIds)
         THEN CbRunAndReply("adminAuth", AdminOnlyText)
         ELSE CbEnter(CbNext("adminAuth"), Append(cbTrace, "admin_next"))
    /\ UNCHANGED <<adminIds, cbUpdate, cbError, cbOutcome, retryVars, mwVars, ebVars, otherVars>>

\* composer.on("message:<kind>", handler) of createMessageFeature.
CbOn(kind) ==
    /\ cbPc = "on:" \o kind
    /\ IF CbOnMatches(cbUpdate, kind)
         THEN CbRunAndReply("on:" \o kind, CbOnReply(cbUpdate, kind))
         ELSE CbEnter(CbNext("on:" \o kind), cbTrace)
    /\ UNCHANGED <<adminIds, cbUpdate, cbError, cbOutcome, retryVars, mwVars, ebVars, otherVars>>

\* An error travels upstream to the catch block of the error handling
\* middleware, when that middleware was entered.
CbThrow(error, trace) ==
    /\ cbError' = error
    /\ cbTrace' = trace
    /\ IF \E i \in 1..Len(trace) : trace[i] = "try"
         THEN cbPc' = "catch" /\ UNCHANGED cbOutcome
         ELSE cbPc' = "done" /\ cbOutcome' = "rejected"

\* The reply of a handler was sent: every middleware upstream returns.
CbReplyResolves ==
    /\ cbPc = "awaitReply"
    /\ cbPc' = "done"
    /\ cbTrace' = Append(cbTrace, "reply_ok")
    /\ cbOutcome' = "resolved"
    /\ UNCHANGED <<adminIds, cbUpdate, cbError, retryVars, mwVars, ebVars, otherVars>>

\* The reply of a handler failed.
CbReplyRejects(kind) ==
    /\ cbPc = "awaitReply"
    /\ CbThrow(MkError(kind, Len(cbTrace)), Append(cbTrace, "reply_failed"))
    /\ UNCHANGED <<adminIds, cbUpdate, retryVars, mwVars, ebVars, otherVars>>

\* No handler took the update.
CbChainEnds ==
    /\ cbPc = "returning"
    /\ cbPc' = "done"
    /\ cbOutcome' = "resolved"
    /\ UNCHANGED <<adminIds, cbUpdate, cbTrace, cbError, retryVars, mwVars, ebVars, otherVars>>

\* catch (error) { console.error(...); await ctx.reply(...)
CbCatch ==
    /\ cbPc = "catch"
    /\ cbPc' = "awaitApology"
    /\ cbTrace' = cbTrace \o <<"catch", "reply:" \o CbApologyText>>
    /\ UNCHANGED <<adminIds, cbUpdate, cbError, cbOutcome, retryVars, mwVars, ebVars, otherVars>>

\* The apology was sent.
CbApologyResolves ==
    /\ cbPc = "awaitApology"
    /\ cbPc' = "done"
    /\ cbTrace' = Append(cbTrace, "reply_ok")
    /\ cbOutcome' = "resolved"
    /\ cbError' = NoError
    /\ UNCHANGED <<adminIds, cbUpdate, retryVars, mwVars, ebVars, otherVars>>

\* The apology failed inside the catch block.
CbApologyRejects(kind) ==
    /\ cbPc = "awaitApology"
    /\ cbPc' = "done"
    /\ cbTrace' = Append(cbTrace, "reply_failed")
    /\ cbOutcome' = "rejected"
    /\ cbError' = MkError(kind, Len(cbTrace))
    /\ UNCHANGED <<adminIds, cbUpdate, retryVars, mwVars, ebVars, otherVars>>

NextComposed ==
    \/ CreateComposedBot
    \/ CbReceive
    \/ CbLogging
    \/ CbErrorHandling
    \/ \E c \in CbCommands : CbCommand(c)
    \/ CbAdminAuth
    \/ \E kind \in {"text", "photo", "sticker"} : CbOn(kind)
    \/ CbReplyResolves
    \/ \E kind \in ErrorKinds : CbReplyRejects(kind)
    \/ CbChainEnds
    \/ CbCatch
    \/ CbApologyResolves
    \/ \E kind \in ErrorKinds : CbApologyRejects(kind)

\* ------------------------------------------------------------------------
\* createErrorHandlingBot
\* ------------------------------------------------------------------------
\* The commands of the error handling bot, and an unregistered one.
EbCommands == {"divide", "sendphoto", "unstable", "validate", "error", "help"}

\* ctx.match after trim() and split(/\s+/), as its words: numbers, a word
\* that is no number, a word longer than 200 characters ("LONG") and a
\* script tag.
EbArgs ==
    {<<>>, <<"6">>, <<"6", "3">>, <<"6", "0">>, <<"x", "3">>, <<"6", "3", "1">>,
     <<"LONG">>, <<"<script>">>}

EbUpdates == {[cmd |-> c, words |-> w] : c \in EbCommands \cup {"other"}, w \in EbArgs}

\* "".split(/\s+/) is [""]: the empty text has one (empty) argument.
SplitArgs(words) == IF words = <<>> THEN <<"">> ELSE words

\* parseFloat of a word: a number or NaN.
ParseFloat(word) ==
    CASE word = "6" -> [nan |-> FALSE, val |-> 6]
      [] word = "3" -> [nan |-> FALSE, val |-> 3]
      [] word = "1" -> [nan |-> FALSE, val |-> 1]
      [] word = "0" -> [nan |-> FALSE, val |-> 0]
      [] word = "6abc" -> [nan |-> FALSE, val |-> 6]
      [] OTHER -> [nan |-> TRUE, val |-> 0]

\* What the try block of handleDivideCommand replies.
DivideReply(words) ==
    LET args == SplitArgs(words) IN
    IF Len(args) # 2 THEN "Usage: /divide <number> <number>"
    ELSE IF ParseFloat(args[1]).nan \/ ParseFloat(args[2]).nan
      THEN "Both arguments must be valid numbers."
    ELSE IF ParseFloat(args[2]).val = 0 THEN "Error: Cannot divide by zero."
    ELSE args[1] \o " / " \o args[2] \o " = ..."

\* validateUserInput(input): the error, or "" when the input is valid.
validateUserInput(words) ==
    IF words = <<>> THEN "Input cannot be empty."
    ELSE IF \E i \in 1..Len(words) : words[i] = "LONG"
      THEN "Input is too long (max 200 characters)."
    ELSE IF \E i \in 1..Len(words) : words[i] = "<script>"
      THEN "Invalid input detected."
    ELSE ""

\* What handleValidatedCommand replies.
ValidateReply(words) ==
    IF validateUserInput(words) # ""
      THEN "Validation error: " \o validateUserInput(words)
      ELSE "You submitted: ..."

\* The error codes a GrammyError is explored with.
GrammyErrorCodes == {400, 403, 429}

\* What the catch block of handleSendPhotoCommand replies; "" for no reply.
SendPhotoFallback(kind, code) ==
    IF kind = "GrammyError"
      THEN IF code = 400
             THEN "The photo URL is invalid or the image cannot be loaded."
           ELSE IF code = 403 THEN ""
           ELSE "Failed to send photo: ..."
      ELSE "An unexpected error occurred while sending the photo."

EbApologyText ==
    "An error occurred while processing your request. Our team has been notified."

\* The middleware of createErrorHandlingBot in registration order.
EbChain ==
    <<"errorBoundary", "divide", "sendphoto", "unstable", "validate", "error",
      "help">>

\* next(): the middleware registered after stage, "end" after the last one.
EbNext(stage) ==
    LET i == CHOOSE k \in 1..Len(EbChain) : EbChain[k] = stage
    IN IF i < Len(EbChain) THEN EbChain[i + 1] ELSE "end"

\* Variant of ApologyFailure: the apology reply is not guarded.
ApologyFailureEscapes(error) ==
    [outcome |-> "rejected", error |-> error]

\* errorBoundary: what follows a failure of the apology reply. The inner
\* catch (replyError) logs it and the middleware returns.
ApologyFailure(error) ==
    [outcome |-> "resolved", error |-> NoError]

EbInit ==
    /\ ebPc = "idle"
    /\ ebUpdate = [cmd |-> "other", words |-> <<>>]
    /\ ebTrace = <<>>
    /\ ebError = NoError
    /\ ebOutcome = "none"

\* ctx.reply(text) is called and awaited at `awaiting`.
EbReply(text, awaiting) ==
    /\ ebPc' = awaiting
    /\ ebTrace' = Append(ebTrace, "reply:" \o text)

\* The handler returned: await next() of errorBoundary resolves and
\* errorBoundary returns.
EbReturn(trace) ==
    /\ ebPc' = "done"
    /\ ebTrace' = Append(trace, "next_resolved")
    /\ ebOutcome' = "resolved"
    /\ ebError' = NoError

\* The handler threw: await next() of errorBoundary rejects.
EbThrow(error, trace) ==
    /\ ebPc' = "boundaryCatch"
    /\ ebTrace' = Append(trace, "next_rejected")
    /\ ebError' = error
    /\ UNCHANGED ebOutcome

\* bot.command(c, handler) does not match: the update passes on.
EbPass(stage) ==
    /\ ebPc' = IF EbNext(stage) = "end" THEN "returning" ELSE EbNext(stage)
    /\ UNCHANGED <<ebTrace, ebError, ebOutcome>>

\* The framework hands an update to errorBoundary.
EbReceive ==
    /\ ebPc \in {"idle", "done"}
    /\ \E u \in EbUpdates : ebUpdate' = u
    /\ ebPc' = EbChain[1]
    /\ ebTrace' = <<>>
    /\ ebError' = NoError
    /\ ebOutcome' = "none"
    /\ UNCHANGED <<retryVars, mwVars, cbVars, otherVars>>

\* errorBoundary: try { await next();
ErrorBoundaryTry ==
    /\ ebPc = "errorBoundary"
    /\ ebPc' = EbNext("errorBoundary")
    /\ ebTrace' = Append(ebTrace, "try")
    /\ UNCHANGED <<ebUpdate, ebError, ebOutcome, retryVars, mwVars, cbVars, otherVars>>

\* handleDivideCommand: the try block validates and replies.
HandleDivideCommand ==
    /\ ebPc = "divide"
    /\ IF ebUpdate.cmd = "divide"
         THEN /\ EbReply(DivideReply(ebUpdate.words), "divideReply")
              /\ UNCHANGED <<ebError, ebOutcome>>
         ELSE EbPass("divide")
    /\ UNCHANGED <<ebUpdate, retryVars, mwVars, cbVars, otherVars>>

\* handleDivideCommand: its reply was sent.
DivideReplyResolves ==
    /\ ebPc = "divideReply"
    /\ EbReturn(Append(ebTrace, "reply_ok"))
    /\ UNCHANGED <<ebUpdate, retryVars, mwVars, cbVars, otherVars>>

\* handleDivideCommand: its reply failed; the catch block replies again.
DivideReplyRejects(kind) ==
    /\ ebPc = "divideReply"
    /\ ebPc' = "handlerFallback"
    /\ ebTrace' = ebTrace \o
           <<"reply_failed",
             "reply:An unexpected error occurred. Please try again later.">>
    /\ UNCHANGED <<ebUpdate, ebError, ebOutcome, retryVars, mwVars, cbVars, otherVars>>

\* handleSendPhotoCommand: try { await ctx.replyWithPhoto(...)
HandleSendPhotoCommand ==
    /\ ebPc = "sendphoto"
    /\ IF ebUpdate.cmd = "sendphoto"
         THEN /\ ebPc' = "photoReply"
              /\ ebTrace' = Append(ebTrace, "replyWithPhoto")
              /\ UNCHANGED <<ebError, ebOutcome>>
         ELSE EbPass("sendphoto")
    /\ UNCHANGED <<ebUpdate, retryVars, mwVars, cbVars, otherVars>>

\* handleSendPhotoCommand: the photo was sent.
SendPhotoResolves ==
    /\ ebPc = "photoReply"
    /\ EbReturn(Append(ebTrace, "reply_ok"))
    /\ UNCHANGED <<ebUpdate, retryVars, mwVars, cbVars, otherVars>>

\* handleSendPhotoCommand: the photo failed; the catch block replies by the
\* class and code of the error, or only logs (403).
SendPhotoRejects(kind, code) ==
    /\ ebPc = "photoReply"
    /\ (kind = "GrammyError") <=> (code # 0)
    /\ IF SendPhotoFallback(kind, code) = ""
         THEN EbReturn(Append(ebTrace, "reply_failed"))
         ELSE /\ ebPc' = "handlerFallback"
              /\ ebTrace' = ebTrace \o
                     <<"reply_failed", "reply:" \o SendPhotoFallback(kind, code)>>
              /\ UNCHANGED <<ebError, ebOutcome>>
    /\ UNCHANGED <<ebUpdate, retryVars, mwVars, cbVars, otherVars>>

\* The reply of a handler's catch block was sent.
HandlerFallbackResolves ==
    /\ ebPc = "handlerFallback"
    /\ EbReturn(Append(ebTrace, "reply_ok"))
    /\ UNCHANGED <<ebUpdate, retryVars, mwVars, cbVars, otherVars>>

\* The reply of a handler's catch block failed: the handler rejects.
HandlerFallbackRejects(kind) ==
    /\ ebPc = "handlerFallback"
    /\ EbThrow(MkError(kind, Len(ebTrace)), Append(ebTrace, "reply_failed"))
    /\ UNCHANGED <<ebUpdate, retryVars, mwVars, cbVars, otherVars>>

\* handleUnstableCommand: try { await sendWithRetry(fn, 3, 1000)
HandleUnstableCommand ==
    /\ ebPc = "unstable"
    /\ IF ebUpdate.cmd = "unstable"
         THEN /\ retryPc = "idle"
              /\ SendWithRetryEnter(3, 1000)
              /\ ebPc' = "unstableRetry"
              /\ ebTrace' = Append(ebTrace, "sendWithRetry")
              /\ UNCHANGED <<ebError, ebOutcome>>
         ELSE EbPass("unstable") /\ UNCHANGED retryVars
    /\ UNCHANGED <<ebUpdate, mwVars, cbVars, otherVars>>

\* handleUnstableCommand: sendWithRetry resolved.
UnstableRetryResolves ==
    /\ ebPc = "unstableRetry"
    /\ retryPc = "resolved"
    /\ retryPc' = "idle"
    /\ EbReturn(Append(ebTrace, "retry_ok"))
    /\ UNCHANGED <<maxRetries, delayMs, attempt, lastError, fnCalls, fnHistory,
                   delaysWaited, msWaited, retryThrown>>
    /\ UNCHANGED <<ebUpdate, mwVars, cbVars, otherVars>>

\* handleUnstableCommand: sendWithRetry rejected; the catch block tries to
\* tell the user.
UnstableRetryRejects ==
    /\ ebPc = "unstableRetry"
    /\ retryPc = "rejected"
    /\ retryPc' = "idle"
    /\ ebPc' = "unstableFallback"
    /\ ebTrace' = ebTrace \o
           <<"retry_failed",
             "reply:Service temporarily unavailable. Please try again later.">>
    /\ UNCHANGED <<maxRetries, delayMs, attempt, lastError, fnCalls, fnHistory,
                   delaysWaited, msWaited, retryThrown>>
    /\ UNCHANGED <<ebUpdate, ebError, ebOutcome, mwVars, cbVars, otherVars>>

\* handleUnstableCommand: the fallback message was sent.
UnstableFallbackResolves ==
    /\ ebPc = "unstableFallback"
    /\ EbReturn(Append(ebTrace, "reply_ok"))
    /\ UNCHANGED <<ebUpdate, retryVars, mwVars, cbVars, otherVars>>

\* Variant of FallbackGuarded: the inner catch takes HttpErrors only.
FallbackGuardedHttpOnly(kind) == kind = "HttpError"

\* handleUnstableCommand: the inner try { await ctx.reply(...) } catch { }
\* has a catch without a condition: it takes every error.
FallbackGuarded(kind) == kind \in ErrorKinds

\* handleUnstableCommand: the fallback message failed; catch {} logs it.
UnstableFallbackRejects(kind) ==
    /\ ebPc = "unstableFallback"
    /\ IF FallbackGuarded(kind)
         THEN EbReturn(Append(ebTrace, "reply_failed"))
         ELSE EbThrow(MkError(kind, Len(ebTrace)), Append(ebTrace, "reply_failed"))
    /\ UNCHANGED <<ebUpdate, retryVars, mwVars, cbVars, otherVars>>

\* handleValidatedCommand: replies the validation error or the input.
HandleValidatedCommand ==
    /\ ebPc = "validate"
    /\ IF ebUpdate.cmd = "validate"
         THEN /\ EbReply(ValidateReply(ebUpdate.words), "plainReply")
              /\ UNCHANGED <<ebError, ebOutcome>>
         ELSE EbPass("validate")
    /\ UNCHANGED <<ebUpdate, retryVars, mwVars, cbVars, otherVars>>

\* bot.command("error", () => { throw new Error("This is a test error") })
HandleErrorCommand ==
    /\ ebPc = "error"
    /\ IF ebUpdate.cmd = "error"
         THEN EbThrow(MkError("Error", Len(ebTrace)), Append(ebTrace, "throw"))
         ELSE EbPass("error")
    /\ UNCHANGED <<ebUpdate, retryVars, mwVars, cbVars, otherVars>>

\* bot.command("help", (ctx) => ctx.reply(...))
HandleHelpCommand ==
    /\ ebPc = "help"
    /\ IF ebUpdate.cmd = "help"
         THEN /\ EbReply("Error Handling Demo Commands: ...", "plainReply")
              /\ UNCHANGED <<ebError, ebOutcome>>
         ELSE EbPass("help")
    /\ UNCHANGED <<ebUpdate, retryVars, mwVars, cbVars, otherVars>>

\* The reply of a handler without a try block was sent.
PlainReplyResolves ==
    /\ ebPc = "plainReply"
    /\ EbReturn(Append(ebTrace, "reply_ok"))
    /\ UNCHANGED <<ebUpdate, retryVars, mwVars, cbVars, otherVars>>

\* The reply of a handler without a try block failed: the handler rejects.
PlainReplyRejects(kind) ==
    /\ ebPc = "plainReply"
    /\ EbThrow(MkError(kind, Len(ebTrace)), Append(ebTrace, "reply_failed"))
    /\ UNCHANGED <<ebUpdate, retryVars, mwVars, cbVars, otherVars>>

\* No command matched: the chain ends and next() resolves.
EbChainEnds ==
    /\ ebPc = "returning"
    /\ EbReturn(ebTrace)
    /\ UNCHANGED <<ebUpdate, retryVars, mwVars, cbVars, otherVars>>

\* errorBoundary: catch (error) { console.error(...); try { await ctx.reply
ErrorBoundaryCatch ==
    /\ ebPc = "boundaryCatch"
    /\ EbReply(EbApologyText, "awaitApology")
    /\ UNCHANGED <<ebUpdate, ebError, ebOutcome, retryVars, mwVars, cbVars, otherVars>>

\* errorBoundary: the apology was sent.
ErrorBoundaryApologyResolves ==
    /\ ebPc = "awaitApology"
    /\ ebPc' = "done"
    /\ ebTrace' = Append(ebTrace, "reply_ok")
    /\ ebOutcome' = "resolved"
    /\ ebError' = NoError
    /\ UNCHANGED <<ebUpdate, retryVars, mwVars, cbVars, otherVars>>

\* errorBoundary: the apology failed.
ErrorBoundaryApologyRejects(kind) ==
    /\ ebPc = "awaitApology"
    /\ ebPc' = "done"
    /\ ebTrace' = Append(ebTrace, "reply_failed")
    /\ ebOutcome' = ApologyFailure(MkError(kind, Len(ebTrace))).outcome
    /\ ebError' = ApologyFailure(MkError(kind, Len(ebTrace))).error
    /\ UNCHANGED <<ebUpdate, retryVars, mwVars, cbVars, otherVars>>

NextErrorBot ==
    \/ EbReceive
    \/ ErrorBoundaryTry
    \/ HandleDivideCommand
    \/ DivideReplyResolves
    \/ \E kind \in ErrorKinds : DivideReplyRejects(kind)
    \/ HandleSendPhotoCommand
    \/ SendPhotoResolves
    \/ \E kind \in ErrorKinds, code \in GrammyErrorCodes \cup {0} :
           SendPhotoRejects(kind, code)
    \/ HandlerFallbackResolves
    \/ \E kind \in ErrorKinds : HandlerFallbackRejects(kind)
    \/ HandleUnstableCommand
    \/ SendWithRetryInvokeFn
    \/ SendWithRetryFnResolves
    \/ \E kind \in ErrorKinds : SendWithRetryFnRejects(kind)
    \/ SendWithRetryDelayElapses
    \/ UnstableRetryResolves
    \/ UnstableRetryRejects
    \/ UnstableFallbackResolves
    \/ \E kind \in ErrorKinds : UnstableFallbackRejects(kind)
    \/ HandleValidatedCommand
    \/ HandleErrorCommand
    \/ HandleHelpCommand
    \/ PlainReplyResolves
    \/ \E kind \in ErrorKinds : PlainReplyRejects(kind)
    \/ EbChainEnds
    \/ ErrorBoundaryCatch
    \/ ErrorBoundaryApologyResolves
    \/ \E kind \in ErrorKinds : ErrorBoundaryApologyRejects(kind)

\* ------------------------------------------------------------------------
\* errorBoundary examples: the boundary demo (haltingBoundary,
\* resumingBoundary) and the nested boundary example (baseComposer,
\* continueComposer, suppressComposer)
\* ------------------------------------------------------------------------
\* The two scripts that register their middleware on `bot`.
BdPrograms == {"boundaryDemo", "nestedDemo"}

\* The commands the two scripts register.
BdCommands ==
    {"fail_stop", "fail_resume", "help", "divide", "sendphoto", "unstable",
     "validate", "suppress_error", "continue_error"}

BdUpdates == {[cmd |-> c, words |-> w] : c \in BdCommands \cup {"other"}, w \in EbArgs}

\* composer.command(cmd, handler).  body is what the handler does: "throw"
\* (throws), "reply" (awaits a reply outside any try) or "guarded" (awaits
\* its replies inside try { } catch { console.error }).
Cmd(c, body) ==
    [type |-> "command", cmd |-> c, body |-> body, inner |-> "", errorHandler |-> ""]

\* composer.errorBoundary(errorHandler): the middleware registered on the
\* composer; it runs the composer `inner` it returns inside try { }.
Boundary(h, inner) ==
    [type |-> "boundary", cmd |-> "", body |-> "", inner |-> inner, errorHandler |-> h]

\* composer.use(inner)
Use(inner) ==
    [type |-> "use", cmd |-> "", body |-> "", inner |-> inner, errorHandler |-> ""]

\* The middleware registered on `bot` by the boundary demo, in order.
BoundaryDemoBot ==
    <<Boundary("haltingHandler", "haltingBoundary"),
      Cmd("fail_stop", "reply"),
      Boundary("resumingHandler", "resumingBoundary"),
      Cmd("fail_resume", "reply"),
      Cmd("help", "reply")>>

\* haltingBoundary.command("fail_stop", () => { throw ... })
haltingBoundary == <<Cmd("fail_stop", "throw")>>

\* resumingBoundary.command("fail_resume", () => { throw ... })
resumingBoundary == <<Cmd("fail_resume", "throw")>>

\* The middleware registered on `bot` by the nested example.
NestedBot == <<Use("suppressComposer")>>

\* baseComposer.errorBoundary(errorHandlerWithContinue)
baseComposer == <<Boundary("errorHandlerWithContinue", "continueComposer")>>

\* continueComposer.errorBoundary(errorHandlerSuppress) and the commands
\* registered on continueComposer.
continueComposer ==
    <<Boundary("errorHandlerSuppress", "suppressComposer"),
      Cmd("unstable", "guarded"),
      Cmd("validate", "reply"),
      Cmd("continue_error", "throw")>>

\* The commands registered on suppressComposer.
suppressComposer ==
    <<Cmd("divide", "guarded"),
      Cmd("sendphoto", "guarded"),
      Cmd("suppress_error", "throw"),
      Cmd("help", "reply")>>

\* The middleware of a composer of a script, in registration order.
BdMiddleware(program, composer) ==
    CASE composer = "bot" ->
             IF program = "boundaryDemo" THEN BoundaryDemoBot ELSE NestedBot
      [] composer = "haltingBoundary" -> haltingBoundary
      [] composer = "resumingBoundary" -> resumingBoundary
      [] composer = "baseComposer" -> baseComposer
      [] composer = "continueComposer" -> continueComposer
      [] composer = "suppressComposer" -> suppressComposer

\* Variant of HandlerCallsNext: the halting handler calls next() too.
HandlerCallsNextAlways(h) == TRUE

\* Variant of HandlerCallsNext: no error handler calls next().
HandlerCallsNextNever(h) == FALSE

\* Whether an error handler calls the `next` it is given: the resuming
\* handler does `await next()`, errorHandlerWithContinue does
\* `return next()`; the halting handler and errorHandlerSuppress only log.
HandlerCallsNext(h) == h \in {"resumingHandler", "errorHandlerWithContinue"}

\* The text a command handler replies with.
BdReplyText(program, c, words) ==
    CASE c = "fail_stop" ->
             "This message never appears because the halting boundary ends the chain."
      [] c = "fail_resume" ->
             "The resuming boundary ran and allowed this fallback handler to execute."
      [] c = "help" ->
             IF program = "boundaryDemo"
               THEN "Error Boundary Demo: ..."
               ELSE "Error Handling Demo - Different Error Boundary Behaviors: ..."
      [] c = "divide" -> DivideReply(words)
      [] c = "sendphoto" -> "photo:Here's your photo!"
      [] c = "unstable" -> "This message is sent with retry logic."
      [] c = "validate" -> ValidateReply(words)
      [] OTHER -> ""

BdInit ==
    /\ bdProgram = "none"
    /\ bdPc = "new"
    /\ bdUpdate = [cmd |-> "none", words |-> <<>>]
    /\ bdStack = <<>>
    /\ bdTrace = <<>>
    /\ bdError = NoError
    /\ bdOutcome = "none"

\* The composer being run and the middleware control is at.
BdTop == bdStack[Len(bdStack)]

BdChain == BdMiddleware(bdProgram, BdTop.composer)

BdEntry == BdChain[BdTop.idx]

\* next(): control passes to the following middleware of the same composer.
BdAdvance(stack) == [stack EXCEPT ![Len(stack)].idx = @ + 1]

\* The composers left once the innermost one has returned.
BdPop(stack) == SubSeq(stack, 1, Len(stack) - 1)

\* The innermost composer that runs inside the try of an errorBoundary;
\* 0 when there is none.
BdCatcher(stack) ==
    LET hs == {i \in 1..Len(stack) : stack[i].errorHandler # ""} IN
    IF hs = {} THEN 0 ELSE CHOOSE i \in hs : \A j \in hs : j <= i

\* An error is thrown: the innermost errorBoundary around the running
\* middleware catches it; with none, the bot's middleware rejects and the
\* error reaches the bot's top-level error handling.
BdThrow(err, trace) ==
    /\ bdError' = err
    /\ IF BdCatcher(bdStack) = 0
         THEN /\ bdPc' = "done"
              /\ bdOutcome' = "rejected"
              /\ bdStack' = <<>>
              /\ bdTrace' = Append(trace, "escaped")
         ELSE /\ bdPc' = "caught"
              /\ bdStack' = SubSeq(bdStack, 1, BdCatcher(bdStack))
              /\ bdTrace' = trace
              /\ UNCHANGED bdOutcome

\* A middleware returns without calling next(): the chain ends and every
\* middleware upstream resolves.
BdFinish(trace) ==
    /\ bdPc' = "done"
    /\ bdOutcome' = "resolved"
    /\ bdStack' = <<>>
    /\ bdTrace' = trace
    /\ UNCHANGED bdError

\* One of the two scripts runs up to bot.start().
BdCreate ==
    /\ bdPc = "new"
    /\ bdProgram' \in BdPrograms
    /\ bdPc' = "idle"
    /\ UNCHANGED <<bdUpdate, bdStack, bdTrace, bdError, bdOutcome>>
    /\ UNCHANGED <<retryVars, mwVars, cbVars, ebVars, ssVars, scVars, calcVars>>

\* The framework hands an update to the first middleware of the bot.
BdReceive ==
    /\ bdPc \in {"idle", "done"}
    /\ \E u \in BdUpdates : bdUpdate' = u
    /\ bdPc' = "run"
    /\ bdStack' = <<[composer |-> "bot", idx |-> 1, errorHandler |-> ""]>>
    /\ bdTrace' = <<>>
    /\ bdError' = NoError
    /\ bdOutcome' = "none"
    /\ UNCHANGED bdProgram
    /\ UNCHANGED <<retryVars, mwVars, cbVars, ebVars, ssVars, scVars, calcVars>>

\* errorBoundary middleware: try { await bound(ctx, cont)
BdErrorBoundary ==
    /\ bdPc = "run"
    /\ BdTop.idx <= Len(BdChain)
    /\ BdEntry.type = "boundary"
    /\ bdStack' = Append(bdStack, [composer |-> BdEntry.inner, idx |-> 1,
                                   errorHandler |-> BdEntry.errorHandler])
    /\ bdTrace' = Append(bdTrace, "boundary:" \o BdEntry.errorHandler)
    /\ UNCHANGED <<bdProgram, bdPc, bdUpdate, bdError, bdOutcome>>
    /\ UNCHANGED <<retryVars, mwVars, cbVars, ebVars, ssVars, scVars, calcVars>>

\* bot.use(composer): the middleware of the composer runs in place.
BdUse ==
    /\ bdPc = "run"
    /\ BdTop.idx <= Len(BdChain)
    /\ BdEntry.type = "use"
    /\ bdStack' = Append(bdStack, [composer |-> BdEntry.inner, idx |-> 1,
                                   errorHandler |-> ""])
    /\ bdTrace' = Append(bdTrace, "use:" \o BdEntry.inner)
    /\ UNCHANGED <<bdProgram, bdPc, bdUpdate, bdError, bdOutcome>>
    /\ UNCHANGED <<retryVars, mwVars, cbVars, ebVars, ssVars, scVars, calcVars>>

\* composer.command(c, handler): the filter passes other updates to next();
\* on a match the handler runs and never calls next().
BdCommand ==
    /\ bdPc = "run"
    /\ BdTop.idx <= Len(BdChain)
    /\ BdEntry.type = "command"
    /\ LET ran == Append(bdTrace, "handler:" \o BdTop.composer \o ":" \o BdEntry.cmd) IN
       IF BdEntry.cmd # bdUpdate.cmd
         THEN /\ bdStack' = BdAdvance(bdStack)
              /\ UNCHANGED <<bdPc, bdTrace, bdError, bdOutcome>>
         ELSE IF BdEntry.body = "throw"
           THEN BdThrow(MkError("Error", Len(bdTrace)), Append(ran, "throw"))
           ELSE /\ bdPc' = "awaitReply"
                /\ bdTrace' = Append(ran, "reply:" \o
                       BdReplyText(bdProgram, BdEntry.cmd, bdUpdate.words))
                /\ UNCHANGED <<bdStack, bdError, bdOutcome>>
    /\ UNCHANGED <<bdProgram, bdUpdate>>
    /\ UNCHANGED <<retryVars, mwVars, cbVars, ebVars, ssVars, scVars, calcVars>>

\* The reply of a handler was sent; the handler returns.
BdReplyResolves ==
    /\ bdPc = "awaitReply"
    /\ BdFinish(Append(bdTrace, "reply_ok"))
    /\ UNCHANGED <<bdProgram, bdUpdate>>
    /\ UNCHANGED <<retryVars, mwVars, cbVars, ebVars, ssVars, scVars, calcVars>>

\* The reply of a handler failed: a guarded handler logs the error in its
\* catch block and returns, any other handler rejects with it.
BdReplyRejects(kind) ==
    /\ bdPc = "awaitReply"
    /\ IF BdEntry.body = "guarded"
         THEN BdFinish(bdTrace \o <<"reply_failed", "logged">>)
         ELSE BdThrow(MkError(kind, Len(bdTrace)), Append(bdTrace, "reply_failed"))
    /\ UNCHANGED <<bdProgram, bdUpdate>>
    /\ UNCHANGED <<retryVars, mwVars, cbVars, ebVars, ssVars, scVars, calcVars>>

\* The last middleware of a composer called next(): at the bot the chain
\* is over; a composer run by bot.use or by an errorBoundary (whose cont
\* sets nextCalled) hands control to the middleware after it.
BdComposerEnds ==
    /\ bdPc = "run"
    /\ BdTop.idx > Len(BdChain)
    /\ IF Len(bdStack) = 1
         THEN BdFinish(Append(bdTrace, "chain_end"))
         ELSE /\ bdStack' = BdAdvance(BdPop(bdStack))
              /\ UNCHANGED <<bdPc, bdTrace, bdError, bdOutcome>>
    /\ UNCHANGED <<bdProgram, bdUpdate>>
    /\ UNCHANGED <<retryVars, mwVars, cbVars, ebVars, ssVars, scVars, calcVars>>

\* errorBoundary middleware: catch (err) { nextCalled = false;
\* await errorHandler(new BotError(err, ctx), cont) }
\* if (nextCalled) await next();
BdErrorHandler ==
    /\ bdPc = "caught"
    /\ IF HandlerCallsNext(BdTop.errorHandler)
         THEN /\ bdPc' = "run"
              /\ bdStack' = BdAdvance(BdPop(bdStack))
              /\ bdTrace' = bdTrace \o <<"errorHandler:" \o BdTop.errorHandler, "next">>
              /\ bdError' = NoError
              /\ UNCHANGED bdOutcome
         ELSE BdFinish(Append(bdTrace, "errorHandler:" \o BdTop.errorHandler))
    /\ UNCHANGED <<bdProgram, bdUpdate>>
    /\ UNCHANGED <<retryVars, mwVars, cbVars, ebVars, ssVars, scVars, calcVars>>

NextBoundary ==
    \/ BdCreate
    \/ BdReceive
    \/ BdErrorBoundary
    \/ BdUse
    \/ BdCommand
    \/ BdReplyResolves
    \/ \E kind \in ErrorKinds : BdReplyRejects(kind)
    \/ BdComposerEnds
    \/ BdErrorHandler

\* ------------------------------------------------------------------------
\* Sessions bot (sessions/mod.ts)
\* ------------------------------------------------------------------------
\* The chat keys (chat ids) updates arrive from.
Chats == {1, 2}

\* The texts after /note (ctx.match): empty, blank, and two notes, one of
\* them with surrounding whitespace.
SsMatches == {"", "  ", "milk", " eggs "}

\* String.prototype.trim() on the texts above.
Trim(text) ==
    CASE text = "  " -> ""
      [] text = " eggs " -> "eggs"
      [] OTHER -> text

\* The kinds of update: the four commands, a command no handler is
\* registered for, and a text message that is no command.
SsCommands == {"start", "note", "notes", "reset", "unknown", "text"}

SsUpdates ==
    {[chat |-> c, cmd |-> k, match |-> ""] : c \in Chats, k \in SsCommands} \cup
    {[chat |-> c, cmd |-> "note", match |-> m] : c \in Chats, m \in SsMatches}

\* No update is being handled.
SsNoUpdate == [chat |-> 0, cmd |-> "none", match |-> ""]

\* The objects and arrays that can be alive at once: one session per chat
\* in the storage and the one /reset has just created.
SsRefs == 1..(Cardinality(Chats) + 1)

\* A slot of the heap that holds no object.
SsFreeObj == [live |-> FALSE, visits |-> 0, notes |-> 0]

SsFreeArr == [live |-> FALSE, items |-> <<>>]

\* The first free slot of a heap.
SsAlloc(heap) == CHOOSE r \in SsRefs : ~heap[r].live /\ \A q \in SsRefs : ~heap[q].live => r <= q

\* Variant of NotesArray: every initial session holds the same array.
NotesArrayShared(arrs) == 1

\* initialSession: `notes: []` evaluates the array literal at every call,
\* so every initial session gets an array of its own.
NotesArray(arrs) == SsAlloc(arrs)

\* The decimal text of a small number.
NumStr(n) ==
    CASE n = 0 -> "0" [] n = 1 -> "1" [] n = 2 -> "2" [] n = 3 -> "3"
      [] n = 4 -> "4" [] n = 5 -> "5" [] n = 6 -> "6" [] n = 7 -> "7"
      [] n = 8 -> "8" [] n = 9 -> "9" [] OTHER -> "n"

\* notes.map((value, index) => `${index + 1}. ${value}`).join("\n")
RECURSIVE NotesList(_, _)
NotesList(items, from) ==
    IF from > Len(items) THEN ""
    ELSE NumStr(from) \o ". " \o items[from] \o
         (IF from < Len(items) THEN "\n" ELSE "") \o NotesList(items, from + 1)

\* Variant of StartReply: the first visit is tested before the increment.
StartReplyBeforeIncrement(visits) ==
    "Session middleware example ready.\n" \o
    (IF visits = 0 THEN "This is your first session."
     ELSE "You have started the bot " \o NumStr(visits) \o " times.")

\* The reply of /start for a session with the given visits.
StartReply(visits) ==
    "Session middleware example ready.\n" \o
    (IF visits = 1 THEN "This is your first session."
     ELSE "You have started the bot " \o NumStr(visits) \o " times.")

\* The reply of /notes for the given notes.
NotesReply(items) ==
    IF Len(items) = 0 THEN "No notes saved yet."
    ELSE "Your notes:\n" \o NotesList(items, 1)

SsHintText ==
    "Use /note to store text, /notes to list them, and /reset to clear your session."

SsInit ==
    /\ ssPc = "idle"
    /\ ssUpdate = SsNoUpdate
    /\ ssStorage = [c \in Chats |-> 0]
    /\ ssObjs = [r \in SsRefs |-> SsFreeObj]
    /\ ssArrs = [r \in SsRefs |-> SsFreeArr]
    /\ ssSession = 0
    /\ ssReply = ""
    /\ ssStarted = [c \in Chats |-> FALSE]
    /\ ssNoted = [c \in Chats |-> FALSE]
    /\ ssStarts = [c \in Chats |-> 0]
    /\ ssLog = [c \in Chats |-> <<>>]
    /\ ssCleared = [c \in Chats |-> FALSE]

\* The notes of the session object `s`.
SsNotesOf(objs, arrs, s) == arrs[objs[s].notes].items

\* The session stored for a chat, as a value; the initial value when
\* nothing is stored.
SsStored(c) ==
    IF ssStorage[c] = 0 THEN [visits |-> 0, notes |-> <<>>]
    ELSE [visits |-> ssObjs[ssStorage[c]].visits,
          notes |-> SsNotesOf(ssObjs, ssArrs, ssStorage[c])]

\* The session object the storage `storage` holds for chat c.
SsObjOf(storage, c) == ssObjs[storage[c]]

\* The first chat whose stored session refers to the array `a`.
SsOwner(storage, a) ==
    CHOOSE c \in Chats :
        /\ storage[c] # 0 /\ SsObjOf(storage, c).notes = a
        /\ \A d \in Chats :
               (storage[d] # 0 /\ SsObjOf(storage, d).notes = a) => c <= d

\* initialSession(): a new object { visits: 0, notes: [] } in slot `s`.
initialSession(s) ==
    LET a == NotesArray(ssArrs) IN
    /\ ssObjs' = [ssObjs EXCEPT ![s] = [live |-> TRUE, visits |-> 0, notes |-> a]]
    /\ ssArrs' = IF ssArrs[a].live THEN ssArrs
                 ELSE [ssArrs EXCEPT ![a] = [live |-> TRUE, items |-> <<>>]]
    /\ ssSession' = s

\* await ctx.reply(text)
SsReply(text) ==
    /\ ssPc' = "awaitReply"
    /\ ssReply' = text

\* The update is over.  What the storage does not refer to is garbage;
\* addresses are not observable, so the session of chat c is kept in slot
\* c and its array in the slot of the first chat that refers to it.
SsEnd(storage) ==
    /\ ssPc' = "idle"
    /\ ssStorage' = [c \in Chats |-> IF storage[c] = 0 THEN 0 ELSE c]
    /\ ssObjs' = [r \in SsRefs |->
           IF r \in Chats /\ storage[r] # 0
             THEN [live |-> TRUE, visits |-> SsObjOf(storage, r).visits,
                   notes |-> SsOwner(storage, SsObjOf(storage, r).notes)]
             ELSE SsFreeObj]
    /\ ssArrs' = [k \in SsRefs |->
           IF k \in Chats /\ storage[k] # 0
                 /\ SsOwner(storage, SsObjOf(storage, k).notes) = k
             THEN ssArrs[SsObjOf(storage, k).notes]
             ELSE SsFreeArr]
    /\ ssSession' = 0
    /\ ssUpdate' = SsNoUpdate
    /\ ssReply' = ""
    /\ ssStarted' = [ssStarted EXCEPT ![ssUpdate.chat] = @ \/ ssUpdate.cmd = "start"]
    /\ ssNoted' = [ssNoted EXCEPT ![ssUpdate.chat] = @ \/ ssUpdate.cmd = "note"]
    /\ ssCleared' = [ssCleared EXCEPT ![ssUpdate.chat] = ssUpdate.cmd = "reset"]
    /\ UNCHANGED <<ssStarts, ssLog>>

\* bot.start() hands the next update to the middleware; updates are
\* handled one after the other.  Sessions are explored up to MaxVisits
\* visits and MaxNotes notes.
SsReceive ==
    /\ ssPc = "idle"
    /\ \E u \in SsUpdates :
          /\ u.cmd = "start" => SsStored(u.chat).visits < MaxVisits
          /\ u.cmd = "note" => Len(SsStored(u.chat).notes) < MaxNotes
          /\ ssUpdate' = u
    /\ ssPc' = "session"
    /\ UNCHANGED <<ssStorage, ssObjs, ssArrs, ssSession, ssReply, ssStarted, ssNoted, ssCleared,
                   ssStarts, ssLog>>
    /\ UNCHANGED <<retryVars, mwVars, cbVars, ebVars, bdVars, scVars, calcVars>>

\* session({ initial: initialSession }): ctx.session is the object stored
\* for the chat, or initialSession() when nothing is stored; then next().
SessionInit ==
    /\ ssPc = "session"
    /\ IF ssStorage[ssUpdate.chat] # 0
         THEN /\ ssSession' = ssStorage[ssUpdate.chat]
              /\ UNCHANGED <<ssObjs, ssArrs>>
         ELSE initialSession(SsAlloc(ssObjs))
    /\ ssPc' = "handlers"
    /\ UNCHANGED <<ssUpdate, ssStorage, ssReply, ssStarted, ssNoted, ssCleared, ssStarts, ssLog>>
    /\ UNCHANGED <<retryVars, mwVars, cbVars, ebVars, bdVars, scVars, calcVars>>

\* Variant of VisitsAfterStart: the visit is not counted.
VisitsAfterStartKept(visits) == visits

\* ctx.session.visits += 1
VisitsAfterStart(visits) == visits + 1

\* bot.command("start"): ctx.session.visits += 1; await ctx.reply(...)
SsCommandStart ==
    /\ ssPc = "handlers"
    /\ ssUpdate.cmd = "start"
    /\ ssObjs' = [ssObjs EXCEPT ![ssSession].visits = VisitsAfterStart(@)]
    /\ SsReply(StartReply(VisitsAfterStart(ssObjs[ssSession].visits)))
    /\ ssStarts' = [ssStarts EXCEPT ![ssUpdate.chat] = @ + 1]
    /\ UNCHANGED <<ssUpdate, ssStorage, ssArrs, ssSession, ssStarted, ssNoted, ssCleared,
                   ssLog>>
    /\ UNCHANGED <<retryVars, mwVars, cbVars, ebVars, bdVars, scVars, calcVars>>

\* Variant of NoteText: the text is taken as it was sent.
NoteTextUntrimmed(match) == match

\* const note = ctx.match?.trim()
NoteText(match) == Trim(match)

\* Variant of Push: the note is put in front.
PushFront(items, note) == <<note>> \o items

\* ctx.session.notes.push(note)
Push(items, note) == Append(items, note)

SsUsageText == "Usage: /note <text to remember>"

\* The reply of /note for the notes after the push.
StoredReply(items) == "Stored note #" \o NumStr(Len(items)) \o "."

\* bot.command("note"): a blank text gets the usage reply; any other text
\* is pushed onto ctx.session.notes.
SsCommandNote ==
    /\ ssPc = "handlers"
    /\ ssUpdate.cmd = "note"
    /\ LET note == NoteText(ssUpdate.match)
           a == ssObjs[ssSession].notes
       IN IF note = ""
            THEN /\ SsReply(SsUsageText)
                 /\ UNCHANGED <<ssArrs, ssLog>>
            ELSE /\ ssArrs' = [ssArrs EXCEPT ![a].items = Push(@, note)]
                 /\ SsReply(StoredReply(Push(ssArrs[a].items, note)))
                 /\ ssLog' = [ssLog EXCEPT ![ssUpdate.chat] =
                                  Append(@, Trim(ssUpdate.match))]
    /\ UNCHANGED <<ssUpdate, ssStorage, ssObjs, ssSession, ssStarted, ssNoted, ssCleared,
                   ssStarts>>
    /\ UNCHANGED <<retryVars, mwVars, cbVars, ebVars, bdVars, scVars, calcVars>>

\* bot.command("notes")
SsCommandNotes ==
    /\ ssPc = "handlers"
    /\ ssUpdate.cmd = "notes"
    /\ SsReply(NotesReply(SsNotesOf(ssObjs, ssArrs, ssSession)))
    /\ UNCHANGED <<ssUpdate, ssStorage, ssObjs, ssArrs, ssSession, ssStarted,
                   ssNoted, ssCleared, ssStarts, ssLog>>
    /\ UNCHANGED <<retryVars, mwVars, cbVars, ebVars, bdVars, scVars, calcVars>>

\* bot.command("reset"): ctx.session = initialSession()
SsCommandReset ==
    /\ ssPc = "handlers"
    /\ ssUpdate.cmd = "reset"
    /\ initialSession(SsAlloc(ssObjs))
    /\ SsReply("Session data cleared.")
    /\ ssStarts' = [ssStarts EXCEPT ![ssUpdate.chat] = 0]
    /\ ssLog' = [ssLog EXCEPT ![ssUpdate.chat] = <<>>]
    /\ UNCHANGED <<ssUpdate, ssStorage, ssStarted, ssNoted, ssCleared>>
    /\ UNCHANGED <<retryVars, mwVars, cbVars, ebVars, bdVars, scVars, calcVars>>

\* bot.on("message:text"): a text starting with "/" gets no reply.
SsOnMessageText ==
    /\ ssPc = "handlers"
    /\ ssUpdate.cmd \in {"unknown", "text"}
    /\ IF ssUpdate.cmd = "unknown"
         THEN ssPc' = "finish" /\ UNCHANGED ssReply
         ELSE SsReply(SsHintText)
    /\ UNCHANGED <<ssUpdate, ssStorage, ssObjs, ssArrs, ssSession, ssStarted,
                   ssNoted, ssCleared, ssStarts, ssLog>>
    /\ UNCHANGED <<retryVars, mwVars, cbVars, ebVars, bdVars, scVars, calcVars>>

\* The reply was sent; the handler returns and next() resolves.
SsReplyResolves ==
    /\ ssPc = "awaitReply"
    /\ ssPc' = "finish"
    /\ UNCHANGED <<ssUpdate, ssStorage, ssObjs, ssArrs, ssSession, ssReply,
                   ssStarted, ssNoted, ssCleared, ssStarts, ssLog>>
    /\ UNCHANGED <<retryVars, mwVars, cbVars, ebVars, bdVars, scVars, calcVars>>

\* The reply failed: the handler and the session middleware reject, and
\* the session is not written back.  No bot.catch is installed, so the
\* rejection stops the polling of bot.start(): no further update is handled.
SsReplyRejects ==
    /\ ssPc = "awaitReply"
    /\ ssPc' = "stopped"
    /\ UNCHANGED <<ssUpdate, ssStorage, ssObjs, ssArrs, ssSession, ssReply,
                   ssStarted, ssNoted, ssCleared, ssStarts, ssLog>>
    /\ UNCHANGED <<retryVars, mwVars, cbVars, ebVars, bdVars, scVars, calcVars>>

\* Variant of WrittenBack: the object read at the start of the update is
\* written, whatever ctx.session was assigned since.
WrittenBackAsRead(stored, session) == IF stored = 0 THEN session ELSE stored

\* The value the session middleware writes: ctx.session as it is when
\* next() has resolved.
WrittenBack(stored, session) == session

\* session middleware after next(): ctx.session is written to the storage
\* under the chat key.
SessionFinish ==
    /\ ssPc = "finish"
    /\ SsEnd([ssStorage EXCEPT ![ssUpdate.chat] =
                  WrittenBack(ssStorage[ssUpdate.chat], ssSession)])
    /\ UNCHANGED <<retryVars, mwVars, cbVars, ebVars, bdVars, scVars, calcVars>>

NextSessions ==
    \/ SsReceive
    \/ SessionInit
    \/ SsCommandStart
    \/ SsCommandNote
    \/ SsCommandNotes
    \/ SsCommandReset
    \/ SsOnMessageText
    \/ SsReplyResolves
    \/ SsReplyRejects
    \/ SessionFinish

\* ------------------------------------------------------------------------
\* createStatefulFeature (bot_composition.ts): several updates in flight
\* ------------------------------------------------------------------------
\* The updates that can be in flight at once.
ScSlots == 1..MaxInFlight

\* The senders of the updates: absent, the id 0 and two users.
ScIds == {0, 42, 123456789}

ScSenders ==
    {[hasFrom |-> FALSE, fromId |-> 0]} \cup
    {[hasFrom |-> TRUE, fromId |-> id] : id \in ScIds}

ScUpdates ==
    {[hasFrom |-> s.hasFrom, fromId |-> s.fromId, cmd |-> c] :
        s \in ScSenders, c \in {"mycount", "other"}}

\* A slot with no update in flight.
ScFree == [pc |-> "free", hasFrom |-> FALSE, fromId |-> 0, cmd |-> "none", reply |-> ""]

\* ctx.from?.id is undefined or 0: `!userId`.
ScNoUserId(u) == ~u.hasFrom \/ Falsy(u.fromId)

\* Variant of GetCount: a missing entry counts as 1.
GetCountFromOne(map, userId) ==
    IF userId \in DOMAIN map THEN map[userId] ELSE 1

\* messageCount.get(userId) ?? 0
GetCount(map, userId) ==
    IF userId \in DOMAIN map THEN map[userId] ELSE 0

\* messageCount.set(userId, value)
SetCount(map, userId, value) ==
    [k \in DOMAIN map \cup {userId} |-> IF k = userId THEN value ELSE map[k]]

ScInit ==
    /\ messageCount = <<>>
    /\ scSlots = [i \in ScSlots |-> ScFree]
    /\ scPassed = [id \in ScIds |-> 0]
    /\ scReceived = 0
    /\ scEscaped = FALSE

\* The framework starts handling an update while others may be in flight;
\* MaxUpdates updates are explored.
ScReceive(i) ==
    /\ scSlots[i].pc = "free"
    /\ scReceived < MaxUpdates
    /\ \E u \in ScUpdates :
          scSlots' = [scSlots EXCEPT ![i] =
              [pc |-> "counting", hasFrom |-> u.hasFrom, fromId |-> u.fromId,
               cmd |-> u.cmd, reply |-> ""]]
    /\ scReceived' = scReceived + 1
    /\ UNCHANGED <<messageCount, scPassed, scEscaped>>
    /\ UNCHANGED <<retryVars, mwVars, cbVars, ebVars, bdVars, ssVars, calcVars>>

\* composer.use((ctx, next) => { if (userId) { get; set }; return next() })
\* The read and the write happen with no await between them.
ScCountingMiddleware(i) ==
    /\ scSlots[i].pc = "counting"
    /\ messageCount' =
           IF ScNoUserId(scSlots[i]) THEN messageCount
           ELSE SetCount(messageCount, scSlots[i].fromId,
                         GetCount(messageCount, scSlots[i].fromId) + 1)
    /\ scPassed' = IF scSlots[i].hasFrom
                     THEN [scPassed EXCEPT ![scSlots[i].fromId] = @ + 1]
                     ELSE scPassed
    /\ scSlots' = [scSlots EXCEPT ![i].pc = "mycount"]
    /\ UNCHANGED <<scReceived, scEscaped>>
    /\ UNCHANGED <<retryVars, mwVars, cbVars, ebVars, bdVars, ssVars, calcVars>>

\* composer.command("mycount", ...): other updates pass to next(), which
\* ends the composer; /mycount reads the count and replies.
ScCommandMycount(i) ==
    /\ scSlots[i].pc = "mycount"
    /\ scSlots' = [scSlots EXCEPT ![i] =
           IF scSlots[i].cmd # "mycount" THEN ScFree
           ELSE [@ EXCEPT !.pc = "awaitReply",
                          !.reply =
                              IF ScNoUserId(scSlots[i]) THEN "User ID not available."
                              ELSE "You've sent " \o
                                   NumStr(GetCount(messageCount, scSlots[i].fromId)) \o
                                   " messages."]]
    /\ UNCHANGED <<messageCount, scPassed, scReceived, scEscaped>>
    /\ UNCHANGED <<retryVars, mwVars, cbVars, ebVars, bdVars, ssVars, calcVars>>

\* The reply of /mycount was sent.
ScReplyResolves(i) ==
    /\ scSlots[i].pc = "awaitReply"
    /\ scSlots' = [scSlots EXCEPT ![i] = ScFree]
    /\ UNCHANGED <<messageCount, scPassed, scReceived, scEscaped>>
    /\ UNCHANGED <<retryVars, mwVars, cbVars, ebVars, bdVars, ssVars, calcVars>>

\* The reply of /mycount failed; the error leaves the composer.
ScReplyRejects(i) ==
    /\ scSlots[i].pc = "awaitReply"
    /\ scSlots' = [scSlots EXCEPT ![i] = ScFree]
    /\ scEscaped' = TRUE
    /\ UNCHANGED <<messageCount, scPassed, scReceived>>
    /\ UNCHANGED <<retryVars, mwVars, cbVars, ebVars, bdVars, ssVars, calcVars>>

NextStateful ==
    \/ \E i \in ScSlots : ScReceive(i)
    \/ \E i \in ScSlots : ScCountingMiddleware(i)
    \/ \E i \in ScSlots : ScCommandMycount(i)
    \/ \E i \in ScSlots : ScReplyResolves(i)
    \/ \E i \in ScSlots : ScReplyRejects(i)

\* ------------------------------------------------------------------------
\* Example usage (bot_composition.ts): createComposedBot, then
\* bot.use(createStatefulFeature()), then bot.start()
\* ------------------------------------------------------------------------
\* The updates of the example: those of the composed bot and /mycount, bare
\* and with the argument "hi".
MainUpdates ==
    CbUpdates \cup
    {[hasFrom |-> s.hasFrom, fromId |-> s.fromId,
      msg |-> CbContent("text", "mycount", m, IF m = "hi" THEN {"hi"} ELSE {})] :
        s \in Senders, m \in {"", "hi"}}

\* What the /mycount handler replies.
MycountReply(update, map) ==
    IF ScNoUserId(update) THEN "User ID not available."
    ELSE "You've sent " \o NumStr(GetCount(map, update.fromId)) \o " messages."

\* bot.start() hands the next update to the first middleware; updates are
\* handled one after the other, and an error that left the middleware has
\* stopped the bot (no bot.catch is installed).  Counts are explored up to
\* MaxUpdates.
MainReceive ==
    /\ cbPc \in {"idle", "done"}
    /\ cbOutcome # "rejected"
    /\ \E u \in MainUpdates :
          /\ GetCount(messageCount, u.fromId) < MaxUpdates
          /\ cbUpdate' = u
    /\ CbEnter(CbChain[1], <<>>)
    /\ cbError' = NoError
    /\ cbOutcome' = "none"
    /\ UNCHANGED <<adminIds, retryVars, mwVars, ebVars, otherVars>>

\* next() of the last middleware of createComposedBot enters the stateful
\* feature, registered after it: its counting middleware.
MainCountingMiddleware ==
    /\ cbPc = "returning"
    /\ messageCount' =
           IF ScNoUserId(cbUpdate) THEN messageCount
           ELSE SetCount(messageCount, cbUpdate.fromId,
                         GetCount(messageCount, cbUpdate.fromId) + 1)
    /\ cbPc' = "cmd:mycount"
    /\ cbTrace' = Append(cbTrace, "count")
    /\ UNCHANGED <<adminIds, cbUpdate, cbError, cbOutcome>>
    /\ UNCHANGED <<scSlots, scPassed, scReceived, scEscaped>>
    /\ UNCHANGED <<retryVars, mwVars, ebVars, bdVars, ssVars, calcVars>>

\* composer.command("mycount", ...) of the stateful feature.
MainCommandMycount ==
    /\ cbPc = "cmd:mycount"
    /\ IF CbCommandMatches(cbUpdate, "mycount")
         THEN CbRunAndReply("cmd:mycount", MycountReply(cbUpdate, messageCount))
         ELSE cbPc' = "end" /\ UNCHANGED cbTrace
    /\ UNCHANGED <<adminIds, cbUpdate, cbError, cbOutcome, retryVars, mwVars, ebVars, otherVars>>

\* No handler took the update.
MainChainEnds ==
    /\ cbPc = "end"
    /\ cbPc' = "done"
    /\ cbOutcome' = "resolved"
    /\ UNCHANGED <<adminIds, cbUpdate, cbTrace, cbError, retryVars, mwVars, ebVars, otherVars>>

NextMain ==
    \/ CreateComposedBot
    \/ MainReceive
    \/ CbLogging
    \/ CbErrorHandling
    \/ \E c \in CbCommands : CbCommand(c)
    \/ CbAdminAuth
    \/ \E kind \in {"text", "photo", "sticker"} : CbOn(kind)
    \/ MainCountingMiddleware
    \/ MainCommandMycount
    \/ CbReplyResolves
    \/ \E kind \in ErrorKinds : CbReplyRejects(kind)
    \/ MainChainEnds
    \/ CbCatch
    \/ CbApologyResolves
    \/ \E kind \in ErrorKinds : CbApologyRejects(kind)

\* ------------------------------------------------------------------------
\* handleCalcCommand (function/calc_command.ts)
\* ------------------------------------------------------------------------
\* The words ctx.match is explored with: numbers, a number followed by
\* letters, a word that is no number, and operators.
CalcWords == {"6", "3", "0", "6abc", "x", "-", "/", "%"}

\* ctx.match as its whitespace-separated words, up to MaxWords of them.
RECURSIVE CalcMatchesOfLen(_)
CalcMatchesOfLen(n) ==
    IF n = 0 THEN {<<>>}
    ELSE {Append(m, w) : m \in CalcMatchesOfLen(n - 1), w \in CalcWords}

CalcMatches == UNION {CalcMatchesOfLen(n) : n \in 0..MaxWords}

\* The decimal text of a number.
RECURSIVE DecStr(_)
DecStr(n) ==
    IF n < 0 THEN "-" \o DecStr(0 - n)
    ELSE IF n < 10 THEN NumStr(n)
    ELSE DecStr(n \div 10) \o NumStr(n % 10)

CalcUsageText == "Usage: /calc <number> <operator> <number>\nExample: /calc 5 + 3"

\* The switch of handleCalcCommand for the numbers a and b: the reply it
\* ends with.  A quotient that is no integer is written as a fraction.
CalcSwitch(a, operator, b) ==
    LET line(result) ==
            DecStr(a) \o " " \o operator \o " " \o DecStr(b) \o " = " \o result
    IN  CASE operator = "+" -> line(DecStr(a + b))
          [] operator = "-" -> line(DecStr(a - b))
          [] operator = "*" -> line(DecStr(a * b))
          [] operator = "/" ->
                 IF b = 0 THEN "Cannot divide by zero."
                 ELSE IF a % b = 0 THEN line(DecStr(a \div b))
                 ELSE line(DecStr(a) \o "/" \o DecStr(b))
          [] OTHER -> "Unknown operator: " \o operator \o "\nSupported operators: + - * /"

\* Variant of CalcReply: the operator is examined before the operands.
CalcReplyOperatorFirst(words) ==
    LET args == SplitArgs(words) IN
    IF Len(args) # 3 THEN CalcUsageText
    ELSE IF args[2] \notin {"+", "-", "*", "/"}
      THEN CalcSwitch(0, args[2], 0)
    ELSE IF ParseFloat(args[1]).nan \/ ParseFloat(args[3]).nan
      THEN "Both operands must be valid numbers."
    ELSE CalcSwitch(ParseFloat(args[1]).val, args[2], ParseFloat(args[3]).val)

\* handleCalcCommand: the text it replies with for the words of ctx.match.
CalcReply(words) ==
    LET args == SplitArgs(words) IN
    IF Len(args) # 3 THEN CalcUsageText
    ELSE IF ParseFloat(args[1]).nan \/ ParseFloat(args[3]).nan
      THEN "Both operands must be valid numbers."
    ELSE CalcSwitch(ParseFloat(args[1]).val, args[2], ParseFloat(args[3]).val)

CalcInit ==
    /\ calcPc = "idle"
    /\ calcMatch = <<>>
    /\ calcReply = ""
    /\ calcOutcome = "none"

\* bot.command("calc", handleCalcCommand): a /calc update arrives.
CalcReceive ==
    /\ calcPc = "idle"
    /\ calcMatch' \in CalcMatches
    /\ calcPc' = "calc"
    /\ calcOutcome' = "none"
    /\ UNCHANGED calcReply
    /\ UNCHANGED <<retryVars, mwVars, cbVars, ebVars, bdVars, ssVars, scVars>>

\* handleCalcCommand up to its await ctx.reply(...)
HandleCalcCommand ==
    /\ calcPc = "calc"
    /\ calcReply' = CalcReply(calcMatch)
    /\ calcPc' = "awaitReply"
    /\ UNCHANGED <<calcMatch, calcOutcome>>
    /\ UNCHANGED <<retryVars, mwVars, cbVars, ebVars, bdVars, ssVars, scVars>>

\* The update is over; the bot waits for the next one.
CalcEnd(outcome) ==
    /\ calcPc' = "idle"
    /\ calcMatch' = <<>>
    /\ calcReply' = ""
    /\ calcOutcome' = outcome

\* The reply was sent; handleCalcCommand resolves.
CalcReplyResolves ==
    /\ calcPc = "awaitReply"
    /\ CalcEnd("resolved")
    /\ UNCHANGED <<retryVars, mwVars, cbVars, ebVars, bdVars, ssVars, scVars>>

\* The reply failed; handleCalcCommand rejects.
CalcReplyRejects ==
    /\ calcPc = "awaitReply"
    /\ CalcEnd("rejected")
    /\ UNCHANGED <<retryVars, mwVars, cbVars, ebVars, bdVars, ssVars, scVars>>

NextCalc ==
    \/ CalcReceive
    \/ HandleCalcCommand
    \/ CalcReplyResolves
    \/ CalcReplyRejects

Init == RetryInit /\ MwInit /\ CbInit /\ EbInit /\ BdInit /\ SsInit /\ ScInit /\ CalcInit

NextRetry ==
    \/ SendWithRetryCall
    \/ SendWithRetryInvokeFn
    \/ SendWithRetryFnResolves
    \/ \E kind \in ErrorKinds : SendWithRetryFnRejects(kind)
    \/ SendWithRetryDelayElapses
    \/ SendWithRetryReturn

SpecRetry == Init /\ [][NextRetry]_vars

\* sendWithRetry when every invocation of fn settles and every delay
\* elapses: the function's own steps are taken, fn() resolves or rejects,
\* and the setTimeout promise resolves.
FairSpecRetry ==
    /\ SpecRetry
    /\ WF_vars(SendWithRetryInvokeFn)
    /\ WF_vars(SendWithRetryFnResolves \/ \E kind \in ErrorKinds : SendWithRetryFnRejects(kind))
    /\ WF_vars(SendWithRetryDelayElapses)

SpecMiddleware == Init /\ [][NextMiddleware]_vars

SpecComposed == Init /\ [][NextComposed]_vars

SpecErrorBot == Init /\ [][NextErrorBot]_vars

SpecBoundary == Init /\ [][NextBoundary]_vars

SpecSessions == Init /\ [][NextSessions]_vars

SpecStateful == Init /\ [][NextStateful]_vars

SpecCalc == Init /\ [][NextCalc]_vars

SpecMain == Init /\ [][NextMain]_vars

\* ------------------------------------------------------------------------
\* Properties of sendWithRetry
\* ------------------------------------------------------------------------
\* The settled invocations of fn that failed with a non-HttpError.
NonHttpFailures ==
    {i \in 1..Len(fnHistory) : fnHistory[i].kind \notin {"none", "HttpError"}}

\* Every settled invocation of fn so far failed with an HttpError.
AllHttpSoFar == \A i \in 1..Len(fnHistory) : fnHistory[i].kind = "HttpError"

\* C1: in every execution of sendWithRetry(fn, maxRetries, delayMs), fn is
\* invoked at most maxRetries times, whatever mix of successes, HttpError
\* failures and other failures fn produces.
C1_AtMostMaxRetriesCalls ==
    /\ fnCalls <= maxRetries
    /\ Len(fnHistory) <= fnCalls

\* C1 witness: a run that used every attempt, with failures followed by a
\* success on the last one.
C1_Witness ==
    /\ retryPc = "resolved"
    /\ maxRetries >= 3
    /\ fnCalls = maxRetries
    /\ fnHistory[1].kind = "HttpError"

C3_AllHttpErrorsExhaustRetries ==
    (AllHttpSoFar /\ maxRetries >= 1 /\ retryPc # "idle") =>
        /\ retryPc # "resolved"
        /\ retryPc = "try" => (delaysWaited = fnCalls /\ fnCalls < maxRetries)
        /\ retryPc = "awaitFn" => delaysWaited = fnCalls - 1
        /\ retryPc = "delay" => (delaysWaited = fnCalls /\ fnCalls < maxRetries)
        /\ msWaited = delaysWaited * delayMs
        /\ retryPc = "rejected" =>
              /\ fnCalls = maxRetries
              /\ Len(fnHistory) = maxRetries
              /\ delaysWaited = maxRetries - 1
              /\ retryThrown = MkError("HttpError", maxRetries)
              /\ retryThrown = fnHistory[maxRetries]

\* C3 witness: three HttpErrors in a row with maxRetries = 3 and a delay of
\* 1000 ms, rejected.
C3_Witness ==
    /\ retryPc = "rejected"
    /\ maxRetries = 3
    /\ delayMs = 1000
    /\ AllHttpSoFar
    /\ Len(fnHistory) = 3
    /\ msWaited = 2000

\* ------------------------------------------------------------------------
\* Properties of createBotWithMiddleware
\* ------------------------------------------------------------------------
\* The positions of event e in the trace of the current update.
MwPositions(e) == {i \in 1..Len(mwTrace) : mwTrace[i] = e}

\* The command and message handlers registered after the authentication.
MwHandlerStages == {"cmd_start", "cmd_status", "on_text"}

\* The trace entries that are not a call of ctx.reply.
MwPlainEvents ==
    {MwChain[k] : k \in 1..Len(MwChain)} \cup
    {"log", "auth_next", "reply_ok", "reply_failed", "rt_line"}

\* authenticationMiddleware has made its decision for the current update.
MwAuthDecided == MwPositions("auth") # {} /\ mwPc # "auth"

\* C4: for every update whose sender is absent or whose id is not in
\* allowedUserIds, authenticationMiddleware sends exactly one rejection
\* reply and never calls next(), so no handler registered after it runs.
C4_UnauthorizedShortCircuits ==
    (mwPc \notin {"new", "idle"} /\ (~mwUpdate.hasFrom \/ mwUpdate.fromId \notin allowedUserIds)) =>
        /\ MwPositions("auth_next") = {}
        /\ \A h \in MwHandlerStages : MwPositions(h) = {}
        /\ mwPc \notin MwHandlerStages
        /\ Cardinality(MwPositions("reply:" \o NotAuthorizedText)) =
               IF MwAuthDecided THEN 1 ELSE 0
        /\ \A i \in 1..Len(mwTrace) :
               mwTrace[i] \in MwPlainEvents \cup
                   {"reply:" \o NotAuthorizedText, "reply:" \o MwApologyText}

\* C4 witness: a /start from user 42, who is not in the allow-list of
\* createBotWithMiddleware, was rejected and the update is done.
C4_Witness ==
    /\ mwPc = "done"
    /\ allowedUserIds = {123456789, 987654321}
    /\ mwUpdate = [hasFrom |-> TRUE, fromId |-> 42, what |-> "/start"]
    /\ MwPositions("reply:" \o NotAuthorizedText) # {}
    /\ mwOutcome = "resolved"

\* C5: for every update whose sender id is a member of allowedUserIds,
\* authenticationMiddleware sends no rejection reply and calls next()
\* exactly once.
C5_AllowedSenderPasses ==
    (mwPc \notin {"new", "idle"} /\ mwUpdate.hasFrom /\ mwUpdate.fromId \in allowedUserIds) =>
        /\ MwPositions("reply:" \o NotAuthorizedText) = {}
        /\ Cardinality(MwPositions("auth_next")) = IF MwAuthDecided THEN 1 ELSE 0

\* C9: no error raised while an update is processed propagates out of
\* errorHandlingMiddleware to the framework.
C9_NoErrorEscapes == mwOutcome # "rejected"

\* C10: middleware runs in registration order: the logging line comes
\* before the authentication check, the check before any handler, a
\* handler only after authentication called next(), and the response-time
\* line only after everything downstream has completed.
C10_RegistrationOrder ==
    /\ \A i \in MwPositions("auth") : \E j \in MwPositions("log") : j < i
    /\ \A i \in MwPositions("auth_next") : \E j \in MwPositions("auth") : j < i
    /\ \A h \in MwHandlerStages : \A i \in MwPositions(h) :
           \E j \in MwPositions("auth_next") : j < i
    /\ \A i \in 1..Len(mwTrace) :
           mwTrace[i] \notin MwPlainEvents \cup
               {"reply:" \o NotAuthorizedText, "reply:" \o MwApologyText}
           => \E j \in MwPositions("auth_next") : j < i
    /\ mwPc \in MwHandlerStages => MwPositions("auth_next") # {}
    /\ \A i \in MwPositions("rt_line") :
           /\ i = Len(mwTrace)
           /\ mwPc = "done"
           /\ MwPositions("reply_failed") = {}
           /\ mwTrace[i - 1] \in {"reply_ok", "on_text"}
           /\ \E j \in MwPositions("responseTime") : j < i

\* C10 witness: an authorized user's text message went down the whole chain
\* to the echo handler and the response-time line was printed.
C10_Witness ==
    /\ mwPc = "done"
    /\ mwUpdate.what = "text"
    /\ MwPositions("reply:Echo: text") # {}
    /\ mwTrace[Len(mwTrace)] = "rt_line"

\* ------------------------------------------------------------------------
\* Properties of createComposedBot
\* ------------------------------------------------------------------------
\* The positions of event e in the trace of the current update.
CbPositions(e) == {i \in 1..Len(cbTrace) : cbTrace[i] = e}

\* The sender of the current update is an administrator.
CbSenderIsAdmin == cbUpdate.hasFrom /\ cbUpdate.fromId \in adminIds

\* The current update is one of the admin commands.
CbIsAdminCommand ==
    cbUpdate.msg.kind = "text" /\ cbUpdate.msg.cmd \in AdminCommands

\* C6: the handlers of /stats, /broadcast and /maintenance run only for
\* updates whose sender id is in adminIds; a sender that is absent or not in
\* adminIds gets exactly one reply 'This command is only available to
\* administrators.' and none of the three handlers runs.
C6_AdminCommandsOnlyForAdmins ==
    /\ \A c \in AdminCommands :
           (CbPositions("run:cmd:" \o c) # {} \/ cbPc = "cmd:" \o c)
               => CbSenderIsAdmin
    /\ (cbPc \notin {"new", "idle"} /\ CbIsAdminCommand /\ ~CbSenderIsAdmin) =>
           /\ Cardinality(CbPositions("reply:" \o AdminOnlyText)) <= 1
           /\ CbPositions("admin_next") = {}
           /\ cbPc \in {"awaitReply", "catch", "awaitApology", "done"} =>
                  /\ Cardinality(CbPositions("reply:" \o AdminOnlyText)) = 1
                  /\ CbPositions("run:adminAuth") # {}
           /\ cbPc # "returning"

\* C6 witness: /stats from user 42, who is no administrator, was answered
\* with the rejection.
C6_Witness ==
    /\ cbPc = "done"
    /\ adminIds = {123456789}
    /\ cbUpdate.hasFrom /\ cbUpdate.fromId = 42
    /\ cbUpdate.msg.cmd = "stats"
    /\ cbTrace[Len(cbTrace) - 1] = "reply:" \o AdminOnlyText
    /\ cbOutcome = "resolved"

\* C7: every command the /help text lists under 'User Commands' and
\* 'Utility Commands' (/profile, /settings, /echo, /time) is handled by its
\* own feature handler for every sender, administrator or not.
C7_ListedCommandsServed ==
    (/\ cbPc = "done"
     /\ cbUpdate.msg.kind = "text"
     /\ cbUpdate.msg.cmd \in {"profile", "settings", "echo", "time"})
        => CbPositions("run:cmd:" \o cbUpdate.msg.cmd) # {}

\* ------------------------------------------------------------------------
\* Properties of errorBoundary
\* ------------------------------------------------------------------------
\* The positions of event e in the trace of the current update.
EbPositions(e) == {i \in 1..Len(ebTrace) : ebTrace[i] = e}

\* C8: whenever next() rejects, errorBoundary attempts exactly one apology
\* reply and then resolves, even when that reply fails; whenever next()
\* resolves, it sends no reply; it never rejects.
C8_ErrorBoundaryContains ==
    /\ ebOutcome # "rejected"
    /\ ebPc = "done" =>
           /\ ebOutcome = "resolved"
           /\ Cardinality(EbPositions("next_resolved")) +
              Cardinality(EbPositions("next_rejected")) = 1
    /\ EbPositions("next_resolved") # {} =>
           /\ EbPositions("reply:" \o EbApologyText) = {}
           /\ ebTrace[Len(ebTrace)] = "next_resolved"
           /\ ebPc = "done"
    /\ EbPositions("next_rejected") # {} =>
           /\ ebPc \in {"boundaryCatch", "awaitApology", "done"}
           /\ Cardinality(EbPositions("reply:" \o EbApologyText)) =
                  IF ebPc = "boundaryCatch" THEN 0 ELSE 1
    /\ EbPositions("next_resolved") \cup EbPositions("next_rejected") = {} =>
           EbPositions("reply:" \o EbApologyText) = {}

\* C8 witness: next() rejected, the apology reply failed too, and
\* errorBoundary resolved all the same.
C8_Witness ==
    /\ ebPc = "done"
    /\ ebOutcome = "resolved"
    /\ EbPositions("next_rejected") # {}
    /\ ebTrace[Len(ebTrace)] = "reply_failed"
    /\ ebTrace[Len(ebTrace) - 1] = "reply:" \o EbApologyText

\* ------------------------------------------------------------------------
\* errorBoundary examples
\* ------------------------------------------------------------------------
BdPositions(e) == {i \in 1..Len(bdTrace) : bdTrace[i] = e}

\* Every event that records a call of ctx.reply by a handler.
BdReplyEvents ==
    {"reply:" \o BdReplyText(p, c, w) : p \in BdPrograms, c \in BdCommands, w \in EbArgs}

\* The positions of the trace at which a handler called ctx.reply.
BdReplies == {i \in 1..Len(bdTrace) : bdTrace[i] \in BdReplyEvents}

\* An update is being processed or has been processed by the script.
BdHandling(program, c) ==
    bdProgram = program /\ bdPc \notin {"new", "idle"} /\ bdUpdate.cmd = c

\* C11: in the boundary demo, for a /fail_stop update the handler inside
\* haltingBoundary throws, the boundary's error handler runs and the chain
\* ends there: the bot.command("fail_stop") handler registered after the
\* boundary never runs and no reply is sent for the update.
C11_HaltingBoundaryEndsChain ==
    BdHandling("boundaryDemo", "fail_stop") =>
        /\ BdPositions("handler:bot:fail_stop") = {}
        /\ BdReplies = {}
        /\ bdPc # "awaitReply"
        /\ bdPc = "done" =>
               /\ BdPositions("handler:haltingBoundary:fail_stop") # {}
               /\ Cardinality(BdPositions("errorHandler:haltingHandler")) = 1
               /\ bdTrace[Len(bdTrace)] = "errorHandler:haltingHandler"
               /\ bdOutcome = "resolved"

\* C11 witness: a /fail_stop update is done; the handler of haltingBoundary
\* threw and the halting error handler ran.
C11_Witness ==
    /\ BdHandling("boundaryDemo", "fail_stop")
    /\ bdPc = "done"
    /\ BdPositions("throw") # {}
    /\ BdPositions("errorHandler:haltingHandler") # {}

\* The fallback reply of bot.command("fail_resume").
C12_FallbackReply ==
    "reply:" \o BdReplyText("boundaryDemo", "fail_resume", <<>>)

\* C12: in the boundary demo, for a /fail_resume update the handler inside
\* resumingBoundary throws, the boundary's error handler runs first and
\* calls next(), and then the bot.command("fail_resume") handler registered
\* after the boundary runs and sends its fallback reply exactly once.
C12_ResumingBoundaryContinues ==
    BdHandling("boundaryDemo", "fail_resume") =>
        LET thrown == BdPositions("throw")
            handled == BdPositions("errorHandler:resumingHandler")
            fallback == BdPositions("handler:bot:fail_resume")
            sent == BdPositions(C12_FallbackReply)
        IN  /\ Cardinality(handled) <= 1
            /\ Cardinality(fallback) <= 1
            /\ Cardinality(sent) <= 1
            /\ BdReplies = sent
            /\ \A i \in handled : \E j \in thrown : j < i
            /\ \A i \in handled : i < Len(bdTrace) /\ bdTrace[i + 1] = "next"
            /\ \A i \in fallback : \E j \in handled : j < i
            /\ \A i \in sent : \E j \in fallback : j < i
            /\ bdPc \in {"awaitReply", "done"} =>
                   /\ Cardinality(handled) = 1
                   /\ Cardinality(fallback) = 1
                   /\ Cardinality(sent) = 1

\* C12 witness: a /fail_resume update is done; the resuming error handler
\* ran and the fallback reply of bot.command("fail_resume") was sent.
C12_Witness ==
    /\ BdHandling("boundaryDemo", "fail_resume")
    /\ bdPc = "done"
    /\ BdPositions("errorHandler:resumingHandler") # {}
    /\ BdPositions(C12_FallbackReply) # {}
    /\ bdTrace[Len(bdTrace)] = "reply_ok"

\* C13: in the nested example, an error thrown by the /suppress_error
\* handler is caught by errorHandlerSuppress: it is logged there, it
\* does not reach the bot's top-level error handling, and the middleware
\* stops after the boundary.
C13_SuppressErrorCaught ==
    (BdHandling("nestedDemo", "suppress_error") /\ bdPc = "done") =>
        /\ BdPositions("errorHandler:errorHandlerSuppress") # {}
        /\ BdPositions("escaped") = {}
        /\ bdOutcome = "resolved"

\* C14: in the nested example, every command advertised by /help is
\* served: /unstable, /validate and /continue_error, registered on
\* continueComposer, are reached by an update carrying them, and the error
\* thrown by /continue_error is caught by errorHandlerWithContinue.
C14_AdvertisedCommandsServed ==
    \A c \in {"unstable", "validate", "continue_error"} :
        (BdHandling("nestedDemo", c) /\ bdPc = "done") =>
            /\ BdPositions("handler:continueComposer:" \o c) # {}
            /\ c = "continue_error" =>
                   BdPositions("errorHandler:errorHandlerWithContinue") # {}

\* ------------------------------------------------------------------------
\* Sessions bot
\* ------------------------------------------------------------------------
\* The value of ctx.session for the update being handled.
SsCtxSession ==
    [visits |-> ssObjs[ssSession].visits,
     notes |-> SsNotesOf(ssObjs, ssArrs, ssSession)]

\* The handler of the update has called ctx.reply.
SsReplied == ssPc \in {"awaitReply", "finish"}

\* C15: session defaults are supplied when absent: when a command is
\* handled for a chat key nothing is stored for, its session is
\* {visits: 0, notes: []}; the first /start of a chat replies "This is your
\* first session." and a /notes before any /note of the chat replies
\* "No notes saved yet.".
C15_SessionDefaults ==
    /\ (ssPc = "handlers" /\ ssStorage[ssUpdate.chat] = 0) =>
           SsCtxSession = [visits |-> 0, notes |-> <<>>]
    /\ (SsReplied /\ ssUpdate.cmd = "start" /\ ~ssStarted[ssUpdate.chat]) =>
           ssReply = "Session middleware example ready.\nThis is your first session."
    /\ (SsReplied /\ ssUpdate.cmd = "notes" /\ ~ssNoted[ssUpdate.chat]) =>
           ssReply = "No notes saved yet."

\* C15 witness: the first /start of chat 2, which had no session stored,
\* has replied "This is your first session.", after chat 1 had started the
\* bot before.
C15_Witness ==
    /\ ssPc = "finish"
    /\ ssUpdate.cmd = "start"
    /\ ssUpdate.chat = 2
    /\ ~ssStarted[2]
    /\ ssStarted[1]
    /\ ssStorage[2] = 0
    /\ ssReply = "Session middleware example ready.\nThis is your first session."

\* C16: sessions are isolated per chat key: no step of an update of one
\* chat changes the stored visits or notes of a different chat, and the
\* sessions of two chats never hold the same notes array, so a note stored
\* in one chat never appears in the /notes listing of another.
C16_SessionsIsolated ==
    /\ [](\A c, d \in Chats :
             (c # d /\ ssStorage[c] # 0 /\ ssStorage[d] # 0) =>
                 ssObjs[ssStorage[c]].notes # ssObjs[ssStorage[d]].notes)
    /\ [][\A c \in Chats : c # ssUpdate.chat => SsStored(c)' = SsStored(c)]_vars

\* C16 witness: chat 1 has stored the note "milk" and chat 2, whose session
\* is stored too, lists its notes: the listing is empty.
C16_Witness ==
    /\ ssPc = "finish"
    /\ ssUpdate.cmd = "notes"
    /\ ssUpdate.chat = 2
    /\ ssStorage[2] # 0
    /\ SsStored(1).notes = <<"milk">>
    /\ SsStored(2).notes = <<>>
    /\ ssReply = "No notes saved yet."

\* The bot is between two updates.
SsIdle == ssPc = "idle"

\* The handler of the update has run and the bot has not stopped.
SsHandled == ssPc \in {"awaitReply", "finish"}

\* What the n-th /start since the last /reset has to reply.
SsVisitText(n) ==
    IF n = 1 THEN "Session middleware example ready.\nThis is your first session."
    ELSE "Session middleware example ready.\nYou have started the bot "
             \o NumStr(n) \o " times."

\* C21: in every chat, session.visits is the number of /start commands
\* handled since the most recent /reset (or since the session was
\* created); the n-th such /start replies "This is your first session."
\* for n = 1 and "You have started the bot n times." for n >= 2; and no
\* step of a /start changes the notes of the session.
C21_VisitsCountStarts ==
    /\ [](/\ SsIdle => \A c \in Chats : SsStored(c).visits = ssStarts[c]
          /\ SsHandled => SsCtxSession.visits = ssStarts[ssUpdate.chat]
          /\ (SsHandled /\ ssUpdate.cmd = "start") =>
                 ssReply = SsVisitText(ssStarts[ssUpdate.chat]))
    /\ [][ssUpdate.cmd = "start" =>
              /\ \A c \in Chats : SsStored(c)'.notes = SsStored(c).notes
              /\ (ssPc = "handlers" /\ ssPc' = "awaitReply") =>
                     SsCtxSession'.notes = SsCtxSession.notes]_vars

\* C21 witness: chat 1 had a /start handled, was reset, stored the note
\* "milk", and its next /start has replied "This is your first session.".
C21_Witness ==
    /\ ssPc = "finish"
    /\ ssUpdate.cmd = "start"
    /\ ssUpdate.chat = 1
    /\ ssStarted[1]
    /\ ssStarts[1] = 1
    /\ SsCtxSession = [visits |-> 1, notes |-> <<"milk">>]
    /\ ssReply = "Session middleware example ready.\nThis is your first session."

\* The update is a /note whose text is not blank.
SsStoringNote == ssUpdate.cmd = "note" /\ Trim(ssUpdate.match) # ""

\* The lines "1. ...", "2. ..." for the texts of `log`, in their order.
RECURSIVE SsNumbered(_)
SsNumbered(log) ==
    IF log = <<>> THEN ""
    ELSE SsNumbered(SubSeq(log, 1, Len(log) - 1))
             \o (IF Len(log) > 1 THEN "\n" ELSE "")
             \o NumStr(Len(log)) \o ". " \o log[Len(log)]

\* C22: a /note with a text that is not blank appends the trimmed text at
\* the end of session.notes and replies "Stored note #k." with k the length
\* of notes after the append; the notes of a chat are exactly the texts
\* stored since its last /reset, in the order they were stored, and /notes
\* lists them numbered from 1 in that order.
C22_NotesKeepInsertionOrder ==
    /\ [](/\ SsIdle => \A c \in Chats : SsStored(c).notes = ssLog[c]
          /\ SsHandled => SsCtxSession.notes = ssLog[ssUpdate.chat]
          /\ (SsHandled /\ SsStoringNote) =>
                 ssReply = "Stored note #"
                               \o NumStr(Len(SsCtxSession.notes)) \o "."
          /\ (SsHandled /\ ssUpdate.cmd = "notes"
                  /\ ssLog[ssUpdate.chat] # <<>>) =>
                 ssReply = "Your notes:\n" \o SsNumbered(ssLog[ssUpdate.chat]))
    /\ [][(SsStoringNote /\ ssPc = "handlers" /\ ssPc' = "awaitReply") =>
              SsCtxSession'.notes =
                  Append(SsCtxSession.notes, Trim(ssUpdate.match))]_vars

\* C22 witness: chat 1 stored " eggs " and then "milk", chat 2 stored
\* "milk", and /notes in chat 1 has listed "1. eggs" and "2. milk".
C22_Witness ==
    /\ ssPc = "finish"
    /\ ssUpdate.cmd = "notes"
    /\ ssUpdate.chat = 1
    /\ SsStored(1).notes = <<"eggs", "milk">>
    /\ SsStored(2).notes = <<"milk">>
    /\ ssReply = "Your notes:\n1. eggs\n2. milk"

\* The update is a /note whose text is empty or only whitespace.
SsBlankNote == ssUpdate.cmd = "note" /\ ssUpdate.match \in {"", "  "}

\* The updates that only read the session: /notes, a blank /note and a
\* text message that is no command.
SsReadOnlyUpdate == ssUpdate.cmd \in {"notes", "text"} \/ SsBlankNote

\* C23: /notes, a /note whose text is empty or only whitespace, and a text
\* message that is no command leave the session of the chat (visits and
\* notes) as it was, in ctx.session and in the storage; the blank /note
\* replies with the usage message.
C23_ReadOnlyUpdatesKeepSession ==
    /\ []((SsHandled /\ SsBlankNote) =>
              ssReply = "Usage: /note <text to remember>")
    /\ [][SsReadOnlyUpdate =>
              /\ \A c \in Chats : SsStored(c)' = SsStored(c)
              /\ (ssPc = "handlers" /\ ssPc' = "awaitReply") =>
                     SsCtxSession' = SsCtxSession]_vars

\* C23 witness: chat 1 has one visit and the note "milk" and sent a /note
\* with only whitespace: the usage message is the reply and the session is
\* as before.
C23_Witness ==
    /\ ssPc = "finish"
    /\ ssUpdate = [chat |-> 1, cmd |-> "note", match |-> "  "]
    /\ ssReply = "Usage: /note <text to remember>"
    /\ SsCtxSession = [visits |-> 1, notes |-> <<"milk">>]
    /\ SsStored(1) = [visits |-> 1, notes |-> <<"milk">>]

\* The value initialSession() returns.
SsInitialValue == [visits |-> 0, notes |-> <<>>]

\* The update being handled comes right after one or more /reset commands
\* of its chat.
SsAfterReset == SsHandled /\ ssCleared[ssUpdate.chat]

\* C24: /reset returns the session of its chat to {visits: 0, notes: []}
\* from any state, also when the session has just been reset; right after
\* one or more /reset commands the stored session is the initial value,
\* /notes replies "No notes saved yet.", /start replies "This is your first
\* session." and a /note that stores a text replies "Stored note #1.".
C24_ResetRestoresInitial ==
    /\ (SsHandled /\ ssUpdate.cmd = "reset") => SsCtxSession = SsInitialValue
    /\ SsIdle => \A c \in Chats :
           ssCleared[c] => (ssStorage[c] # 0 /\ SsStored(c) = SsInitialValue)
    /\ (SsAfterReset /\ ssUpdate.cmd = "notes") => ssReply = "No notes saved yet."
    /\ (SsAfterReset /\ ssUpdate.cmd = "start") =>
           ssReply = "Session middleware example ready.\nThis is your first session."
    /\ (SsAfterReset /\ SsStoringNote) => ssReply = "Stored note #1."

\* C24 witness: chat 1 had a /start and a /note handled and was reset; the
\* /note that follows the /reset has replied "Stored note #1.".
C24_Witness ==
    /\ ssPc = "finish"
    /\ ssUpdate = [chat |-> 1, cmd |-> "note", match |-> "milk"]
    /\ ssCleared[1]
    /\ ssStarted[1]
    /\ ssNoted[1]
    /\ SsCtxSession = [visits |-> 0, notes |-> <<"milk">>]
    /\ ssReply = "Stored note #1."

\* ------------------------------------------------------------------------
\* createStatefulFeature
\* ------------------------------------------------------------------------
\* The slots whose /mycount handler has read the count of a sender with a
\* non-zero id and awaits its reply.
ScCounted(id) ==
    {i \in ScSlots : /\ scSlots[i].pc = "awaitReply"
                     /\ scSlots[i].hasFrom
                     /\ scSlots[i].fromId = id}

\* The replies of /mycount that tell a count from 1 up to n.
ScCountReplies(n) == {"You've sent " \o NumStr(k) \o " messages." : k \in 1..n}

\* C17: the counter needs no locking: under every interleaving of the
\* updates in flight, once n updates of a sender with a non-zero id have
\* passed the counting middleware the stored count of that sender is
\* exactly n (and there is no entry while n = 0), whatever the other
\* senders do, and /mycount replies with a count that includes the
\* /mycount update itself.
C17_CounterIsExact ==
    \A id \in ScIds \ {0} :
        /\ scPassed[id] = 0 => id \notin DOMAIN messageCount
        /\ scPassed[id] > 0 =>
               id \in DOMAIN messageCount /\ messageCount[id] = scPassed[id]
        /\ \A i \in ScCounted(id) : scSlots[i].reply \in ScCountReplies(scPassed[id])

\* C17 witness: two updates of user 42 are in flight at once; both passed
\* the counting middleware before the /mycount handler of one of them read
\* the count, so it replies 2, and another user has been counted meanwhile.
C17_Witness ==
    /\ GetCount(messageCount, 42) = 2
    /\ GetCount(messageCount, 123456789) = 1
    /\ \E i, j \in ScSlots :
          /\ i # j
          /\ scSlots[i].pc = "awaitReply"
          /\ scSlots[i].fromId = 42
          /\ scSlots[i].reply = "You've sent 2 messages."
          /\ scSlots[j].pc = "mycount"
          /\ scSlots[j].fromId = 42

\* ------------------------------------------------------------------------
\* handleCalcCommand
\* ------------------------------------------------------------------------
\* The tokens of ctx.match: its words, or one empty token for no words.
CalcTokens == IF calcMatch = <<>> THEN <<"">> ELSE calcMatch

\* The tokens parseFloat converts to a number.
CalcNumbers == {"6", "3", "0", "6abc"}

\* The replies that tell an arithmetic result.
CalcResults ==
    {CalcSwitch(a, operator, b) : a \in {0, 3, 6}, b \in {0, 3, 6},
                                  operator \in {"+", "-", "*", "/"}}
        \ {"Cannot divide by zero."}

\* C18: handleCalcCommand validates before computing: with a number of
\* tokens other than 3 it replies the usage message; with 3 tokens of which
\* the first or the third is no number it replies "Both operands must be
\* valid numbers.", whatever the operator is; in both cases it replies no
\* arithmetic result.
C18_CalcValidatesFirst ==
    calcPc = "awaitReply" =>
        /\ Len(CalcTokens) # 3 => calcReply = CalcUsageText
        /\ (Len(CalcTokens) = 3 /\
               (CalcTokens[1] \notin CalcNumbers \/ CalcTokens[3] \notin CalcNumbers)) =>
               calcReply = "Both operands must be valid numbers."
        /\ (Len(CalcTokens) # 3 \/
               CalcTokens[1] \notin CalcNumbers \/ CalcTokens[3] \notin CalcNumbers) =>
               calcReply \notin CalcResults

\* C18 witness: /calc x % 3, whose operand and operator are both invalid,
\* was answered with the operand message.
C18_Witness ==
    /\ calcPc = "awaitReply"
    /\ calcMatch = <<"x", "%", "3">>
    /\ calcReply = "Both operands must be valid numbers."

\* ------------------------------------------------------------------------
\* sendWithRetry: termination
\* ------------------------------------------------------------------------
\* A call of sendWithRetry is running.
RetryRunning == retryPc \in {"try", "awaitFn", "delay"}

\* The call has resolved or rejected.
RetrySettled == retryPc \in {"resolved", "rejected"}

\* C19: sendWithRetry always terminates: when every invocation of fn
\* settles and every delay elapses, every call eventually resolves or
\* rejects, for every maxRetries and every pattern of failures of fn.
C19_SendWithRetryTerminates == RetryRunning ~> RetrySettled

\* C19 witness: a call with maxRetries = 3 rejected after fn failed with
\* an HttpError three times and two delays were waited.
C19_Witness ==
    /\ retryPc = "rejected"
    /\ maxRetries = 3
    /\ fnCalls = 3
    /\ delaysWaited = 2
    /\ AllHttpSoFar

\* ------------------------------------------------------------------------
\* handleUnstableCommand
\* ------------------------------------------------------------------------
\* handleUnstableCommand has been entered for the current update.
UnstableStarted == ebUpdate.cmd = "unstable" /\ EbPositions("sendWithRetry") # {}

\* The calls of ctx.reply with the fallback message.
UnstableFallbacks ==
    EbPositions("reply:Service temporarily unavailable. Please try again later.")

\* Some attempt of the main message succeeded.
UnstableMainSent == \E i \in 1..Len(fnHistory) : fnHistory[i] = NoError

\* C20: handleUnstableCommand never propagates an error: the main message
\* is attempted at most 3 times; the fallback message is attempted at most
\* once and only after sendWithRetry rejected; the handler resolves even
\* when the fallback fails; when an attempt of the main message succeeds
\* no fallback is sent.
C20_UnstableNeverThrows ==
    UnstableStarted =>
        /\ fnCalls <= 3
        /\ Cardinality(UnstableFallbacks) <= 1
        /\ UnstableFallbacks # {} =>
               /\ EbPositions("retry_failed") # {}
               /\ retryThrown # NoError
               /\ ~UnstableMainSent
        /\ UnstableMainSent => UnstableFallbacks = {}
        /\ EbPositions("next_rejected") = {}
        /\ ebPc \notin {"boundaryCatch", "awaitApology"}
        /\ ebOutcome # "rejected"
        /\ ebPc = "done" =>
               /\ ebOutcome = "resolved"
               /\ ebTrace[Len(ebTrace)] = "next_resolved"
               /\ EbPositions("retry_ok") # {} \/ Cardinality(UnstableFallbacks) = 1

\* C20 witness: all three attempts of the main message failed, the
\* fallback message failed too, and handleUnstableCommand resolved.
C20_Witness ==
    /\ UnstableStarted
    /\ ebPc = "done"
    /\ fnCalls = 3
    /\ ~UnstableMainSent
    /\ Cardinality(UnstableFallbacks) = 1
    /\ ebTrace[Len(ebTrace) - 1] = "reply_failed"
    /\ ebOutcome = "resolved"


\* ------------------------------------------------------------------------
\* Example usage: the stateful feature after createComposedBot
\* ------------------------------------------------------------------------
\* The update that was handled is a message with a sender.
MainMessageHandled ==
    /\ cbPc = "done"
    /\ cbOutcome = "resolved"
    /\ cbUpdate.hasFrom
    /\ cbUpdate.msg.kind # "none"

\* C25: with the stateful feature added after createComposedBot's features,
\* every message of a user passes through the counting middleware, and a
\* /mycount of that user is answered by the mycount handler.
C25_StatefulFeatureServed ==
    MainMessageHandled =>
        /\ CbPositions("count") # {}
        /\ cbUpdate.msg.cmd = "mycount" => CbPositions("run:cmd:mycount") # {}

\* In the example usage the mycount handler never runs.
MainMycountNeverRuns == CbPositions("run:cmd:mycount") = {}

\* In the example usage the counting middleware only sees updates of
\* administrators that are no text, photo or sticker message.
MainCountsOnlyOtherUpdates ==
    CbPositions("count") # {} => (CbSenderIsAdmin /\ cbUpdate.msg.kind = "none")

====
